---- MODULE Spec2Model ----
(***************************************************************************)
(* A model of the SkyBank transaction-analysis program (src/src/utils.py,  *)
(* src/src/services.py, src/src/views.py).                                 *)
(*                                                                         *)
(* Conventions.                                                            *)
(*  - Text is a sequence of one-character strings, so that str(),          *)
(*    replace(), slicing and strptime/strftime are computed, not assumed.  *)
(*  - A number is a record [ty, v]: ty is "int" or "float" and v is the    *)
(*    value in thousandths of a currency unit; [ty |-> "nan"] is the float *)
(*    NaN (numpy.nan, float("nan")).                                       *)
(*  - A Python list value is [ty |-> "list", items |-> <<...>>].           *)
(*  - A datetime is the tuple <<year, month, day, hour, minute, second,    *)
(*    microsecond>>; datetimes compare lexicographically.                  *)
(*  - Column and key names that are Cyrillic in the source are             *)
(*    transliterated (the module is ASCII).                                *)
(***************************************************************************)
EXTENDS Integers, Sequences, FiniteSets, TLC

\* ------------------------------------------------------------------ bounds
MaxRows == 2
MaxPasses == 2
MaxTrans == 2
MaxCards == 2
MaxTickers == 2
MaxQuotes == 2
MaxPrompts == 2
MaxInvalid == 2

\* ------------------------------------------------------- program constants
\* the admissible rounding limits of round_to_limit
ValidLimits == {10, 50, 100}

\* ------------------------------------------------------------ values
NaN == [ty |-> "nan", v |-> 0]
IntV(n) == [ty |-> "int", v |-> n * 1000]
FloatV(m) == [ty |-> "float", v |-> m]
ListV(s) == [ty |-> "list", items |-> s]
TextV(s) == [ty |-> "str", s |-> s]
None == [ty |-> "None"]

\* isinstance(value, float): numpy.float64 and NaN are Python floats
IsFloat(x) == x.ty \in {"float", "nan"}

AbsI(n) == IF n < 0 THEN -n ELSE n

\* round-half-even of the rational n/d (d > 0) to an integer: Python round()
RoundHalfEven(n, d) ==
    LET q == n \div d
        r == n % d
    IN  IF 2 * r < d THEN q
        ELSE IF 2 * r > d THEN q + 1
        ELSE IF q % 2 = 0 THEN q ELSE q + 1

\* round(x, 2) of a value given in 1/scale units; result in thousandths
Round2(n, scale) == 10 * RoundHalfEven(100 * n, scale)

\* ------------------------------------------------------------ text
Digits == <<"0", "1", "2", "3", "4", "5", "6", "7", "8", "9">>
DigitChars == {Digits[i] : i \in 1..10}
DigitOf(c) == (CHOOSE i \in 1..10 : Digits[i] = c) - 1
Chr(n) == Digits[n + 1]

\* zero-padded decimal rendering, as %d/%m/%H/%M/%S (2) and %Y (4) of strftime
Pad2(n) == <<Chr((n \div 10) % 10), Chr(n % 10)>>
Pad4(n) == <<Chr((n \div 1000) % 10), Chr((n \div 100) % 10)>> \o Pad2(n % 100)

IsDigits(s) == \A i \in 1..Len(s) : s[i] \in DigitChars
RECURSIVE ToInt(_)
ToInt(s) == IF s = <<>> THEN 0 ELSE 10 * ToInt(SubSeq(s, 1, Len(s) - 1)) + DigitOf(s[Len(s)])

\* str(x) of a table cell: a string is itself, numpy.nan is "nan"
StrNaN == <<"n", "a", "n">>
Str(x) == IF x.ty = "str" THEN x.s ELSE StrNaN

\* s.replace(old, "") for a one-character old
RemoveChar(s, old) == SelectSeq(s, LAMBDA c : c # old)

\* s[:n]
Prefix(s, n) == SubSeq(s, 1, IF Len(s) < n THEN Len(s) ELSE n)

\* ------------------------------------------------------------ datetime
IsLeap(y) == (y % 4 = 0 /\ y % 100 # 0) \/ y % 400 = 0
DaysIn(y, m) ==
    IF m = 2 THEN (IF IsLeap(y) THEN 29 ELSE 28)
    ELSE IF m \in {4, 6, 9, 11} THEN 30 ELSE 31

\* datetime.strptime(s, "%d.%m.%Y %H:%M:%S"), for text in the canonical
\* zero-padded layout; anything else is a ValueError (ok = FALSE)
Strptime(s) ==
    LET shape == /\ Len(s) = 19
                 /\ s[3] = "." /\ s[6] = "." /\ s[11] = " "
                 /\ s[14] = ":" /\ s[17] = ":"
                 /\ IsDigits(SubSeq(s, 1, 2)) /\ IsDigits(SubSeq(s, 4, 5))
                 /\ IsDigits(SubSeq(s, 7, 10)) /\ IsDigits(SubSeq(s, 12, 13))
                 /\ IsDigits(SubSeq(s, 15, 16)) /\ IsDigits(SubSeq(s, 18, 19))
        d == ToInt(SubSeq(s, 1, 2))
        m == ToInt(SubSeq(s, 4, 5))
        y == ToInt(SubSeq(s, 7, 10))
        hh == ToInt(SubSeq(s, 12, 13))
        mm == ToInt(SubSeq(s, 15, 16))
        ss == ToInt(SubSeq(s, 18, 19))
    IN  IF shape /\ y >= 1 /\ m \in 1..12 /\ d >= 1 /\ d <= DaysIn(y, m)
                 /\ hh \in 0..23 /\ mm \in 0..59 /\ ss \in 0..59
        THEN [ok |-> TRUE, dt |-> <<y, m, d, hh, mm, ss, 0>>]
        ELSE [ok |-> FALSE, dt |-> <<>>]

\* a <= b on datetimes
RECURSIVE LexLeq(_, _)
LexLeq(a, b) ==
    IF a = <<>> THEN TRUE
    ELSE IF Head(a) < Head(b) THEN TRUE
    ELSE IF Head(a) > Head(b) THEN FALSE
    ELSE LexLeq(Tail(a), Tail(b))

\* dt.replace(day=1): only the day field changes, the time of day is kept
ReplaceDay1(dt) == [dt EXCEPT ![3] = 1]

\* dt.strftime("%Y-%m")
StrftimeYm(dt) == Pad4(dt[1]) \o <<"-">> \o Pad2(dt[2])

\* datetime.combine(d, datetime.max.time()) of main(): 23:59:59.999999
EndOfDay(y, m, d) == <<y, m, d, 23, 59, 59, 999999>>

\* s < t in the lexicographic (code point) order of Python strings
Alphabet ==
    <<" ", "*", "-", ".", "0", "1", "2", "3", "4", "5", "6", "7", "8", "9", ":",
      "A", "N", "a", "n">>
CharRank(c) == CHOOSE i \in 1..Len(Alphabet) : Alphabet[i] = c
RECURSIVE TextLess(_, _)
TextLess(s, t) ==
    IF t = <<>> THEN FALSE
    ELSE IF s = <<>> THEN TRUE
    ELSE IF CharRank(Head(s)) < CharRank(Head(t)) THEN TRUE
    ELSE IF CharRank(Head(s)) > CharRank(Head(t)) THEN FALSE
    ELSE TextLess(Tail(s), Tail(t))

\* the elements of a finite set of texts in ascending order
RECURSIVE SortedTexts(_)
SortedTexts(S) ==
    IF S = {} THEN <<>>
    ELSE LET m == CHOOSE x \in S : \A y \in S \ {x} : TextLess(x, y)
         IN  <<m>> \o SortedTexts(S \ {m})

\* ------------------------------------------------------------ the table
\* column names of the transaction table (transliterated)
ColOpDate == "Data operatsii"
ColCard == "Nomer karty"
ColOpSum == "Summa operatsii"
ColPaySum == "Summa platezha"
ColCategory == "Kategoriya"
BaseCols == <<ColOpDate, ColCard, ColOpSum, ColPaySum, ColCategory>>

\* a pandas DataFrame: ordered column names and rows (column name -> cell)
Table(cols, rows) == [cols |-> cols, rows |-> rows]
ColSet(t) == {t.cols[i] : i \in 1..Len(t.cols)}

\* df[name] = vals : overwrite in place, or append as the last column
SetColumn(t, name, vals) ==
    Table(IF name \in ColSet(t) THEN t.cols ELSE Append(t.cols, name),
          [i \in 1..Len(t.rows) |->
              [c \in ColSet(t) \cup {name} |->
                  IF c = name THEN vals[i] ELSE t.rows[i][c]]])

\* df.iloc[:, :-1] : every column but the last one
DropLastColumn(t) ==
    LET keep == SubSeq(t.cols, 1, Len(t.cols) - 1)
        ks == {keep[i] : i \in 1..Len(keep)}
    IN  Table(keep, [i \in 1..Len(t.rows) |-> [c \in ks |-> t.rows[i][c]]])

DateTimeV(dt) == [ty |-> "datetime", dt |-> dt]

\* a filter that passes over the rows whose timestamp cannot be read
filter_by_date_mut(filter_to_dt, t) ==
    LET readable == SelectSeq(t.rows, LAMBDA r : Strptime(Str(r[ColOpDate])).ok)
        inWindow(r) ==
            /\ LexLeq(ReplaceDay1(filter_to_dt), Strptime(Str(r[ColOpDate])).dt)
            /\ LexLeq(Strptime(Str(r[ColOpDate])).dt, filter_to_dt)
    IN  [err |-> "none", df |-> t, ret |-> Table(t.cols, SelectSeq(readable, inWindow))]

\* filter_by_date(filter_to_dt, df): the outcome is the exception raised (or
\* "none"), the caller's table after the call, and the returned table
filter_by_date(filter_to_dt, t) ==
    LET from_dt == ReplaceDay1(filter_to_dt)
        parsed == [i \in 1..Len(t.rows) |-> Strptime(Str(t.rows[i][ColOpDate]))]
        withDate == SetColumn(t, "date", [i \in 1..Len(t.rows) |-> DateTimeV(parsed[i].dt)])
        inWindow(r) == LexLeq(from_dt, r["date"].dt) /\ LexLeq(r["date"].dt, filter_to_dt)
        filtered_df == Table(withDate.cols, SelectSeq(withDate.rows, inWindow))
    IN  IF \E i \in 1..Len(t.rows) : ~parsed[i].ok
        THEN [err |-> "ValueError", df |-> t, ret |-> None]
        ELSE [err |-> "none", df |-> withDate, ret |-> DropLastColumn(filtered_df)]

\* ------------------------------------------------------------ card summary
\* str(x).replace("*", "") of the card-number cell
CardNumberFmt(x) == RemoveChar(Str(x), "*")

\* dtype of a numeric column: int64 only if no cell is a float or missing
IsIntColumn(t, col) == \A i \in 1..Len(t.rows) : t.rows[i][col].ty = "int"

\* groupby(Card_number_fmt)[col].sum() for the group k: the sum of the group's
\* cells from row i on, a missing cell (NaN) being skipped
RECURSIVE GroupSum(_, _, _, _)
GroupSum(rows, col, k, i) ==
    IF i > Len(rows) THEN 0
    ELSE (IF CardNumberFmt(rows[i][ColCard]) = k /\ rows[i][col].ty # "nan"
          THEN rows[i][col].v ELSE 0)
         + GroupSum(rows, col, k, i + 1)

\* a Python dict: its items in insertion order
Dict(items) == [ty |-> "dict", items |-> items]
Item(k, val) == [k |-> k, val |-> val]
Keys(d) == [i \in 1..Len(d.items) |-> d.items[i].k]
KeySet(d) == {d.items[i].k : i \in 1..Len(d.items)}
Get(d, k) == (CHOOSE it \in {d.items[i] : i \in 1..Len(d.items)} : it.k = k).val

\* a sign flip that is forgotten
FlipNegative_mut(x) == x

\* the lambda of get_total_expenses: -x if x < 0 else x
FlipNegative(x) == IF x < 0 THEN -x ELSE x

\* get_total_expenses(df): groupby(Card_number_fmt)[payment].sum(), sign
\* flipped when negative, as a dict in sorted key order
get_total_expenses(t) ==
    LET ids == {CardNumberFmt(t.rows[i][ColCard]) : i \in 1..Len(t.rows)}
        order == SortedTexts(ids)
        ty == IF IsIntColumn(t, ColPaySum) THEN "int" ELSE "float"
        total(k) == GroupSum(t.rows, ColPaySum, k, 1)
    IN  Dict([j \in 1..Len(order) |->
                Item(order[j], [ty |-> ty, v |-> FlipNegative(total(order[j]))])])

\* round(value / 100, 2)
CashBack(value) == IF value.ty = "nan" THEN NaN ELSE FloatV(Round2(value.v, 100 * 1000))

\* calculate_cashback(operations_dict): the loop from item i on; dividing a
\* list by 100 raises TypeError and leaves the dict as mutated so far
RECURSIVE CashbackLoop(_, _)
CashbackLoop(items, i) ==
    IF i > Len(items) THEN [err |-> "none", items |-> items]
    ELSE LET value == items[i].val
         IN  IF value.ty = "list" THEN [err |-> "TypeError", items |-> items]
             ELSE IF IsFloat(value)
                  THEN CashbackLoop([items EXCEPT ![i].val = ListV(<<value, CashBack(value)>>)], i + 1)
                  ELSE CashbackLoop(items, i + 1)

calculate_cashback(d) ==
    LET r == CashbackLoop(d.items, 1)
    IN  [err |-> r.err, dict |-> Dict(r.items)]

\* a total handed on with all its decimals
RoundNum2_mut(x) == x

\* round(x, 2) of a number
RoundNum2(x) ==
    IF x.ty = "nan" THEN NaN
    ELSE IF x.ty = "int" THEN x
    ELSE FloatV(Round2(x.v, 1000))

\* process_cards_info(transactions_dict): subscripting a bare number raises
process_cards_info(d) ==
    LET cardItems == SelectSeq(d.items, LAMBDA it : it.k # <<"N", "a", "N">>)
    IN  IF \E i \in 1..Len(cardItems) : cardItems[i].val.ty # "list"
        THEN [err |-> "TypeError", ret |-> None]
        ELSE [err |-> "none",
              ret |-> ListV([i \in 1..Len(cardItems) |->
                        [last_digits |-> cardItems[i].k,
                         total_spent |-> RoundNum2(cardItems[i].val.items[1]),
                         cashback |-> cardItems[i].val.items[2]]])]

\* ------------------------------------------------------------ top transactions
ColSortKey == "Sum_without_sign"

\* -x if x < 0 else x; a missing amount stays missing
AbsCell(x) == IF x.ty = "nan" THEN NaN ELSE [ty |-> x.ty, v |-> AbsI(x.v)]

\* the orders in which n rows can be arranged
Orders(n) == {p \in [1..n -> 1..n] : \A i, j \in 1..n : i # j => p[i] # p[j]}

\* sort_values(by=key, ascending=False) puts the rows in the order p: keys
\* descending, rows without a key last and in input order; the default
\* algorithm (quicksort) leaves the order of rows of equal key open
SortedDescending(rows, key, p) ==
    \A i, j \in 1..Len(rows) :
        i < j =>
            IF rows[p[i]][key].ty = "nan"
            THEN rows[p[j]][key].ty = "nan" /\ p[i] < p[j]
            ELSE rows[p[j]][key].ty = "nan" \/ rows[p[i]][key].v >= rows[p[j]][key].v

\* sort_by_amount(df): the record lists the call can return
sort_by_amount(t) ==
    LET df_copy == SetColumn(t, ColSortKey,
                             [i \in 1..Len(t.rows) |-> AbsCell(t.rows[i][ColOpSum])])
        n == Len(df_copy.rows)
    IN  { ListV([i \in 1..n |-> df_copy.rows[p[i]]]) :
            p \in {q \in Orders(n) : SortedDescending(df_copy.rows, ColSortKey, q)} }

ColPayDate == "Data platezha"
ColDescription == "Opisanie"

\* transaction.get(key, default) of a record
DictGet(transaction, key, default) ==
    IF key \in DOMAIN transaction THEN transaction[key] ELSE default

\* a slice that keeps the whole list
SliceTo_mut(list, top) == list

\* transactions_list[:top]: a negative top counts from the end
SliceTo(list, top) ==
    IF top >= 0
    THEN SubSeq(list, 1, IF top < Len(list) THEN top ELSE Len(list))
    ELSE SubSeq(list, 1, IF Len(list) + top > 0 THEN Len(list) + top ELSE 0)

\* "Unknown" and "opisanie otsutstvuet" (transliterated)
UnknownCategory == TextV(<<"U", "n", "k", "n", "o", "w", "n">>)
NoDescription ==
    TextV(<<"o", "p", "i", "s", "a", "n", "i", "e", " ",
            "o", "t", "s", "u", "t", "s", "t", "v", "u", "e", "t">>)

\* get_top_transactions(transactions_list, top)
get_top_transactions(transactions_list, top) ==
    LET first == SliceTo(transactions_list, top)
    IN  ListV([i \in 1..Len(first) |->
                [date |-> DictGet(first[i], ColPayDate, None),
                 amount |-> DictGet(first[i], ColPaySum, FloatV(0)),
                 category |-> DictGet(first[i], ColCategory, UnknownCategory),
                 description |-> DictGet(first[i], ColDescription, NoDescription)]])

\* ------------------------------------------------------------ services
Absent == [ty |-> "absent"]

\* a transaction of services.py: a dict with an operation date and an amount
Transaction(date, amount) == [date |-> date, amount |-> amount]

\* dict.get(key, default)
GetOr(x, default) == IF x = Absent THEN default ELSE x

\* "1900-01-01 00:00:00", the default of a transaction without a date
DefaultDate ==
    TextV(<<"1", "9", "0", "0", "-", "0", "1", "-", "0", "1", " ",
            "0", "0", ":", "0", "0", ":", "0", "0">>)

\* datetime.strptime(year_month, "%Y-%m") succeeds: %Y takes four digits, %m
\* takes 10..12, 01..09 or a single digit 1..9, and no text may be left over
IsYearMonth(s) ==
    /\ Len(s) \in {6, 7}
    /\ s[5] = "-"
    /\ IsDigits(SubSeq(s, 1, 4)) /\ IsDigits(SubSeq(s, 6, Len(s)))
    /\ ToInt(SubSeq(s, 1, 4)) >= 1
    /\ ToInt(SubSeq(s, 6, Len(s))) \in 1..12

\* a month test that looks at the year only
MonthMatches_mut(transaction, year_month) ==
    Prefix(GetOr(transaction.date, DefaultDate).s, 4) = Prefix(year_month, 4)

\* transaction.get(date, default)[:7] == year_month
MonthMatches(transaction, year_month) ==
    Prefix(GetOr(transaction.date, DefaultDate).s, 7) = year_month

LogEntry(level, what) == [level |-> level, what |-> what]
BadYearMonthMsg(ym) == [msg |-> "date does not match YYYY-MM", arg |-> ym]
BadLimitMsg(limit) == [msg |-> "limit not in 10, 50, 100", arg |-> limit]

\* filter_by_year_month(year_month, transactions_list)
filter_by_year_month(year_month, transactions_list) ==
    IF ~IsYearMonth(year_month)
    THEN [ret |-> <<>>,
          log |-> <<LogEntry("error", "ValueError")>>,
          out |-> <<BadYearMonthMsg(year_month)>>]
    ELSE [ret |-> SelectSeq(transactions_list, LAMBDA tr : MonthMatches(tr, year_month)),
          log |-> <<>>,
          out |-> <<>>]

\* a limit test that also lets 25 through
LimitAllowed_mut(rounding_limit) == rounding_limit \in ValidLimits \cup {25}

\* rounding_limit in [10, 50, 100]
LimitAllowed(rounding_limit) == rounding_limit \in ValidLimits

\* a remainder taken without abs(): Python's % follows the sign of the divisor
Remainder_mut(v, rounding_limit) == v % (rounding_limit * 1000)

\* abs(amount) % rounding_limit, in thousandths
Remainder(v, rounding_limit) == AbsI(v) % (rounding_limit * 1000)

\* round_to_limit(amount, rounding_limit): the zero test is on the remainder
\* as computed, the subtraction is on the remainder rounded to 2 decimals
round_to_limit(amount, rounding_limit) ==
    IF ~LimitAllowed(rounding_limit)
    THEN [ret |-> FloatV(0),
          log |-> <<LogEntry("warning", BadLimitMsg(rounding_limit))>>,
          out |-> <<BadLimitMsg(rounding_limit)>>]
    ELSE [ret |-> IF amount.ty = "nan" THEN NaN
                  ELSE IF Remainder(amount.v, rounding_limit) # 0
                       THEN [ty |-> amount.ty,
                             v |-> rounding_limit * 1000
                                   - Round2(Remainder(amount.v, rounding_limit), 1000)]
                       ELSE FloatV(0),
          log |-> <<>>,
          out |-> <<>>]

\* float(x)
ToFloat(x) == IF x.ty = "int" THEN FloatV(x.v) ELSE x

\* acc + x of sum(): the start value 0 is an int, every addend is a float
AddF(acc, x) == IF acc.ty = "nan" \/ x.ty = "nan" THEN NaN ELSE FloatV(acc.v + x.v)

\* sum(round_to_limit(float(amount), limit) for amount in amounts), with the
\* messages the calls emit: the fold from position i on, acc summed so far
RECURSIVE RoundUpSum(_, _, _, _)
RoundUpSum(amounts, limit, i, acc) ==
    IF i > Len(amounts) THEN [ret |-> acc, log |-> <<>>, out |-> <<>>]
    ELSE LET one == round_to_limit(ToFloat(amounts[i]), limit)
             rest == RoundUpSum(amounts, limit, i + 1, AddF(acc, one.ret))
         IN  [ret |-> rest.ret, log |-> one.log \o rest.log, out |-> one.out \o rest.out]

\* json.dumps(obj, indent=4) of a dict: the JSON text of that object
JsonText(obj) == [ty |-> "json", obj |-> obj]

\* an empty month reported as a zero-valued record
EmptyMonthResult_mut(year_month) ==
    Dict(<<Item("month", TextV(year_month)), Item("investment_amount", FloatV(0))>>)

\* result = {} of investment_bank, kept when nothing falls in the month
EmptyMonthResult(year_month) == Dict(<<>>)

\* investment_bank(report_dt, transactions, limit)
investment_bank(report_dt, trans, limit) ==
    LET year_month == StrftimeYm(report_dt)
        f == filter_by_year_month(year_month, trans)
        filtered_transactions == f.ret
        amounts == [i \in 1..Len(filtered_transactions) |->
                        GetOr(filtered_transactions[i].amount, FloatV(0))]
        total == RoundUpSum(amounts, limit, 1, IntV(0))
    IN  IF filtered_transactions # <<>>
        THEN [ret |-> JsonText(Dict(<<Item("month", TextV(year_month)),
                                      Item("investment_amount", total.ret)>>)),
              log |-> f.log \o total.log,
              out |-> f.out \o total.out]
        ELSE [ret |-> JsonText(EmptyMonthResult(year_month)), log |-> f.log, out |-> f.out]

\* ------------------------------------------------------------ reports
ColDate == "Data"
NaT == [ty |-> "NaT"]

\* transactions[col].max() of a text column and the exception it raises, if
\* any: a missing cell among texts cannot be compared with them; otherwise the
\* result is the greatest text in string order, or NaN when there is no text
ColumnMax(t, col) ==
    LET cells == {t.rows[i][col] : i \in 1..Len(t.rows)}
        texts == {c.s : c \in {x \in cells : x.ty = "str"}}
    IN  IF texts # {} /\ \E c \in cells : c.ty # "str"
        THEN [err |-> "TypeError", val |-> None]
        ELSE IF texts = {} THEN [err |-> "none", val |-> NaN]
        ELSE [err |-> "none",
              val |-> TextV(CHOOSE m \in texts : \A o \in texts \ {m} : TextLess(o, m))]

\* dt - pd.DateOffset(months=n): the same day n months earlier, or the last
\* day of that month if it is shorter
MonthsBack(dt, n) ==
    LET total == dt[1] * 12 + (dt[2] - 1) - n
        y == total \div 12
        m == (total % 12) + 1
    IN  [dt EXCEPT ![1] = y, ![2] = m,
                   ![3] = IF dt[3] > DaysIn(y, m) THEN DaysIn(y, m) ELSE dt[3]]

\* a window that starts with the month
Midnight_mut(dt) == <<dt[1], dt[2], 1, 0, 0, 0, 0>>

\* dt.replace(hour=0, minute=0, second=0, microsecond=0)
Midnight(dt) == <<dt[1], dt[2], dt[3], 0, 0, 0, 0>>

\* pd.to_datetime(cell, format="%d.%m.%Y %H:%M:%S"): a missing cell is NaT
ToDatetime(cell) ==
    IF cell.ty = "str"
    THEN LET r == Strptime(cell.s)
         IN  [ok |-> r.ok, val |-> IF r.ok THEN DateTimeV(r.dt) ELSE NaT]
    ELSE [ok |-> cell.ty = "nan", val |-> NaT]

\* (date_from <= x) & (x <= date_to): no comparison with NaT is true
InWindow(x, date_from, date_to) ==
    x.ty = "datetime" /\ LexLeq(date_from, x.dt) /\ LexLeq(x.dt, date_to)

\* to_dict(orient="records"): one record per row, its fields in column order
ToRecords(t) ==
    [i \in 1..Len(t.rows) |->
        [j \in 1..Len(t.cols) |-> Item(t.cols[j], t.rows[i][t.cols[j]])]]

\* a serialization that takes any value
Serializable_mut(x) == TRUE

\* the cell types the JSON encoder knows: str, int and float (NaN included)
Serializable(x) == x.ty \in {"str", "int", "float", "nan"}

\* the JSON token of a cell: a string, a number with or without a fraction
\* part, or NaN
JsonValue(x) ==
    IF x.ty = "str" THEN [jt |-> "string", s |-> x.s]
    ELSE IF x.ty = "int" THEN [jt |-> "number", frac |-> FALSE, v |-> x.v]
    ELSE IF x.ty = "float" THEN [jt |-> "number", frac |-> TRUE, v |-> x.v]
    ELSE IF x.ty = "nan" THEN [jt |-> "NaN"]
    ELSE [jt |-> "object"]

\* json.dumps(records, ensure_ascii=False, indent=4): the JSON text, an array
\* of objects, or TypeError
json_dumps(records) ==
    IF \A i \in 1..Len(records) : \A j \in 1..Len(records[i]) :
          Serializable(records[i][j].val)
    THEN [err |-> "none",
          text |-> JsonText([i \in 1..Len(records) |->
                      [j \in 1..Len(records[i]) |->
                          Item(records[i][j].k, JsonValue(records[i][j].val))]])]
    ELSE [err |-> "TypeError", text |-> None]

\* "[]"
EmptyArrayText == JsonText(<<>>)

NoSpendingMsg == [msg |-> "no spending in the category in the last 3 months"]

\* spending_by_category(transactions, category, report_max_dt): the exception
\* raised (or "none"), the caller's table after the call, the returned value,
\* what is printed and what is logged; date_to.strftime needs a datetime
spending_by_category(transactions, category, report_max_dt) ==
    LET mx == ColumnMax(transactions, ColOpDate)
        parsed == [i \in 1..Len(transactions.rows) |->
                      ToDatetime(transactions.rows[i][ColOpDate])]
        withDate == SetColumn(transactions, ColDate,
                              [i \in 1..Len(transactions.rows) |-> parsed[i].val])
        date_to == IF report_max_dt = None THEN mx.val ELSE report_max_dt
        date_from == Midnight(MonthsBack(date_to.dt, 3))
        filtered_df == Table(withDate.cols,
                             SelectSeq(withDate.rows,
                                       LAMBDA r : InWindow(r[ColDate], date_from, date_to.dt)))
        by_category == Table(filtered_df.cols,
                             SelectSeq(filtered_df.rows,
                                       LAMBDA r : r[ColCategory] = category))
        filtered_by_category == ToRecords(DropLastColumn(by_category))
        dumped == json_dumps(filtered_by_category)
        raised(e) == [err |-> e, df |-> transactions, ret |-> None, out |-> <<>>, log |-> <<>>]
    IN  IF report_max_dt = None /\ mx.err # "none"
        THEN raised(mx.err)
        ELSE IF date_to.ty # "datetime"
        THEN raised("AttributeError")
        ELSE IF \E i \in 1..Len(transactions.rows) : ~parsed[i].ok
        THEN raised("ValueError")
        ELSE IF filtered_by_category = <<>>
        THEN [err |-> "none", df |-> withDate, ret |-> EmptyArrayText,
              out |-> <<NoSpendingMsg>>, log |-> <<>>]
        ELSE IF dumped.err # "none"
        THEN [err |-> "none", df |-> withDate, ret |-> None,
              out |-> <<>>, log |-> <<LogEntry("error", dumped.err)>>]
        ELSE [err |-> "none", df |-> withDate, ret |-> dumped.text,
              out |-> <<>>, log |-> <<>>]

\* numbers read back as floats whatever their spelling
LoadValue_mut(jv) ==
    IF jv.jt = "string" THEN TextV(jv.s)
    ELSE IF jv.jt = "number" THEN FloatV(jv.v)
    ELSE NaN

\* the value json.loads gives a token: a number without a fraction part is
\* an int, one with a fraction part a float
LoadValue(jv) ==
    IF jv.jt = "string" THEN TextV(jv.s)
    ELSE IF jv.jt = "number" THEN [ty |-> IF jv.frac THEN "float" ELSE "int", v |-> jv.v]
    ELSE NaN

\* json.loads(text) of an array of objects: the records, fields in text order
json_loads(text) ==
    [i \in 1..Len(text.obj) |->
        [j \in 1..Len(text.obj[i]) |->
            Item(text.obj[i][j].k, LoadValue(text.obj[i][j].val))]]

\* a file name and os.path.splitext(file_name)[1]
FileName(stem, ext) == [stem |-> stem, ext |-> ext]
Extension(file_name) == file_name.ext

\* a wrapper that skips the write for a null result only
SkipWrite_mut(result) == result = None

\* result == "[]" or result is None
SkipWrite(result) == result = EmptyArrayText \/ result = None

\* what the wrapper puts in the file: the parsed result, in the format the
\* extension selects
FileContent(file_name, result) ==
    [format |-> IF Extension(file_name) = ".json" THEN "json"
                ELSE IF Extension(file_name) = ".csv" THEN "csv" ELSE "excel",
     data |-> json_loads(result)]

\* the directory after file_name has been created or overwritten
WriteFile(dir, file_name, content) ==
    {f \in dir : f.name # file_name} \cup {[name |-> file_name, content |-> content]}

ReportWrittenMsg(file_name) == [msg |-> "report written", arg |-> file_name]

\* the wrapper of write_to_file(file_name, "w") once func has returned result:
\* the directory, what is printed and what is logged; writable tells whether
\* the file can be opened for writing (if not, the write raises
\* PermissionError, which the wrapper's except clause catches and logs)
write_to_file(file_name, result, dir, writable) ==
    IF SkipWrite(result)
    THEN [files |-> dir, out |-> <<>>, log |-> <<>>]
    ELSE IF ~writable
    THEN [files |-> dir, out |-> <<>>, log |-> <<LogEntry("error", "PermissionError")>>]
    ELSE [files |-> WriteFile(dir, file_name, FileContent(file_name, result)),
          out |-> <<ReportWrittenMsg(file_name)>>, log |-> <<>>]

\* ------------------------------------------------------------ inputs
\* "DD.MM.YYYY HH:MM:SS" as read from the spreadsheet
Ts(d, m, y, hh, mm, ss) ==
    TextV(Pad2(d) \o <<".">> \o Pad2(m) \o <<".">> \o Pad4(y) \o <<" ">>
          \o Pad2(hh) \o <<":">> \o Pad2(mm) \o <<":">> \o Pad2(ss))

Row(ts, card, opsum, paysum, cat) ==
    (ColOpDate :> ts) @@ (ColCard :> card) @@ (ColOpSum :> opsum)
    @@ (ColPaySum :> paysum) @@ (ColCategory :> cat)

Card7197 == TextV(<<"*", "7", "1", "9", "7">>)
Card7197b == TextV(<<"7", "1", "9", "7", "*">>)
Card4556 == TextV(<<"*", "4", "5", "5", "6">>)
CatA == TextV(<<"a">>)
CatN == TextV(<<"N">>)

\* rows a spreadsheet can hold: first/last instants of a month, the day of
\* the report, float, whole-number and missing amounts, missing card numbers,
\* and the all-missing row of read_excel2dataframe's fallback table
RowCatalogue ==
    { Row(Ts(1, 12, 2021, 12, 0, 0), Card7197, FloatV(-160890), FloatV(-160890), CatA),
      Row(Ts(1, 12, 2021, 0, 0, 0), Card4556, IntV(-64), IntV(-64), CatN),
      Row(Ts(15, 12, 2021, 0, 0, 0), NaN, FloatV(-99505), FloatV(-99505), CatA),
      Row(Ts(15, 12, 2021, 18, 30, 0), Card7197b, FloatV(100000), FloatV(100000), NaN),
      Row(Ts(30, 11, 2021, 23, 59, 59), Card4556, NaN, NaN, CatN),
      Row(Ts(31, 12, 2021, 23, 59, 59), Card4556, IntV(1212), IntV(1212), CatA),
      Row(NaN, NaN, NaN, NaN, NaN) }

RECURSIVE SeqsUpTo(_, _)
SeqsUpTo(S, n) ==
    IF n = 0 THEN {<<>>}
    ELSE LET shorter == SeqsUpTo(S, n - 1)
         IN  shorter \cup {Append(q, x) : q \in shorter, x \in S}

Tables == {Table(BaseCols, rows) : rows \in SeqsUpTo(RowCatalogue, MaxRows)}

\* a refund of 1212.00 whose payment amount differs: its magnitude equals
\* that of the purchase of 1212
TieRow == Row(Ts(20, 12, 2021, 9, 0, 0), Card7197, FloatV(-1212000), FloatV(-1200000), CatN)

\* a row whose timestamp is written year first
IsoStamp ==
    TextV(<<"2", "0", "2", "1", "-", "1", "2", "-", "0", "1", " ",
            "1", "2", ":", "0", "0", ":", "0", "0">>)
IsoRow == Row(IsoStamp, Card7197, IntV(100), IntV(100), CatA)

TopTables ==
    {Table(BaseCols, rows) : rows \in SeqsUpTo(RowCatalogue \cup {TieRow, IsoRow}, MaxRows)}

\* report instants: the menu's end of day, a midnight and a midday
\* "YYYY-MM-DD", the date format of a normalized transaction
DateText(y, m, d) == TextV(Pad4(y) \o <<"-">> \o Pad2(m) \o <<"-">> \o Pad2(d))

\* normalized transactions: two months of a year, the same month of another
\* year, amounts of two and of three decimals, a multiple of every limit, a
\* missing amount
TransCatalogue ==
    { Transaction(DateText(2021, 12, 31), FloatV(-160890)),
      Transaction(DateText(2021, 12, 1), FloatV(-64000)),
      Transaction(DateText(2021, 11, 30), FloatV(-95505)),
      Transaction(DateText(2020, 12, 15), FloatV(600000)),
      Transaction(DateText(2021, 11, 2), IntV(-11)),
      Transaction(DateText(2021, 12, 7), NaN) }

TransLists == SeqsUpTo(TransCatalogue, MaxTrans)

\* year_month arguments: two months in the layout YYYY-MM, a month of one
\* digit, a month 13, a month before the year, an empty text
YearMonths ==
    { <<"2", "0", "2", "1", "-", "1", "2">>,
      <<"2", "0", "2", "0", "-", "1", "2">>,
      <<"2", "0", "2", "1", "-", "1">>,
      <<"2", "0", "2", "1", "-", "1", "3">>,
      <<"1", "2", "-", "2", "0", "2", "1">>,
      <<>> }

\* report dates of the round-up summary (the menu passes the end of the day)
ReportDates ==
    { EndOfDay(2021, 12, 1), EndOfDay(2021, 11, 1), EndOfDay(2021, 10, 1) }

\* rounding limits a caller can pass: the three of the menu and others
Limits == {10, 50, 100, 25, 0}

\* amounts, in thousandths: whole kopecks, fractions of a kopeck next to a
\* multiple of the limit, rounding ties, multiples, NaN
Amounts ==
    { FloatV(-160670), FloatV(-150890), FloatV(600000), FloatV(0), FloatV(10),
      FloatV(674), FloatV(10001), FloatV(-10004), FloatV(9996), FloatV(49995),
      FloatV(100005), FloatV(-99990), IntV(-32), IntV(100), NaN }

UpperBounds ==
    { EndOfDay(2021, 12, 15), <<2021, 12, 15, 0, 0, 0, 0>>,
      <<2021, 12, 31, 12, 0, 0, 0>>, EndOfDay(2021, 11, 30) }

\* [total, cashback] values of a cashback map: a total of three decimals, an
\* integer total, a zero total
CardPairs ==
    { ListV(<<FloatV(1212804), FloatV(12130)>>),
      ListV(<<IntV(64), FloatV(640)>>),
      ListV(<<FloatV(0), FloatV(0)>>) }

\* keys of a cashback map: card identifiers, the missing-card key "NaN" of the
\* tests and the key "nan" that str() gives a missing card number
CardKeys == { <<"7", "1", "9", "7">>, <<"4", "5", "5", "6">>, <<"N", "a", "N">>, StrNaN }

\* cashback maps of up to MaxCards keys in every insertion order
CashbackMaps ==
    { Dict(items) : items \in
        { q \in SeqsUpTo({Item(k, p) : k \in CardKeys, p \in CardPairs}, MaxCards) :
            \A i, j \in 1..Len(q) : i # j => q[i].k # q[j].k } }

\* records handed to get_top_transactions: a complete one, records lacking
\* one of the four keys, a record with none of them, a missing amount
PayDay == TextV(<<"3", "1", ".", "0", "1", ".", "2", "0", "1", "8">>)
Rzd == TextV(<<"R", "Z", "D">>)
RecordCatalogue ==
    { (ColPayDate :> PayDay) @@ (ColPaySum :> FloatV(-1212800))
        @@ (ColCategory :> CatA) @@ (ColDescription :> Rzd),
      (ColPayDate :> PayDay) @@ (ColCategory :> CatN) @@ (ColDescription :> Rzd),
      (ColPayDate :> PayDay) @@ (ColPaySum :> IntV(-99)) @@ (ColDescription :> Rzd),
      (ColPayDate :> PayDay) @@ (ColPaySum :> FloatV(3000000)) @@ (ColCategory :> CatA),
      (ColPaySum :> NaN) @@ (ColCategory :> CatN) @@ (ColDescription :> Rzd),
      (ColCard :> Card4556) }

RecordLists == SeqsUpTo(RecordCatalogue, MaxRows)

\* values of top: none, fewer than the rows, the default 5, one from the end
TopCounts == {0, 1, 2, 5, -1}

\* the report directory before any report has been written
NoFiles == {}

\* rows around the three-month window of a report: its first instant and
\* the second before it, its last second, the first instant of a window that
\* starts on the last day of February, a row without a timestamp, a row
\* whose timestamp is in another layout
CatUpperA == TextV(<<"A">>)
ReportRowCatalogue ==
    { Row(Ts(15, 9, 2021, 0, 0, 0), Card7197, FloatV(-160890), FloatV(-160890), CatA),
      Row(Ts(14, 9, 2021, 23, 59, 59), Card4556, FloatV(-99000), FloatV(-99000), CatA),
      Row(Ts(15, 12, 2021, 23, 59, 59), Card4556, IntV(-64), IntV(-64), CatUpperA),
      Row(Ts(28, 2, 2021, 0, 0, 0), NaN, FloatV(-1212800), FloatV(-1212800), CatA),
      Row(NaN, NaN, NaN, NaN, CatA),
      IsoRow }

\* upper bounds of a report: the end of a day as the menu passes it, a time
\* of day on the 31st of a month, a day of January
ReportUpperBounds ==
    { EndOfDay(2021, 12, 15), <<2021, 5, 31, 12, 35, 5, 0>>, <<2022, 1, 14, 0, 0, 0, 0>> }

ReportCategories == {CatA, CatUpperA}

SpendingJson == FileName("spending_by_cat", ".json")
SpendingXlsx == FileName("spending_by_cat", ".xlsx")
ReportNames == {SpendingJson, SpendingXlsx}

\* a report left in the directory by an earlier session
OldReport ==
    [name |-> SpendingJson,
     content |-> [format |-> "json", data |-> <<<<Item(ColCategory, CatN)>>>>]]

\* tables a report is asked of: as loaded, after filter_by_date has added
\* its column, after an earlier report has added its column
LoadedReportTables ==
    {Table(BaseCols, rows) : rows \in SeqsUpTo(ReportRowCatalogue, MaxRows)}
ReportTables ==
    LoadedReportTables
    \cup {filter_by_date(EndOfDay(2021, 12, 15), t).df : t \in LoadedReportTables}
    \cup {spending_by_category(t, CatA, DateTimeV(EndOfDay(2021, 12, 15))).df : t \in LoadedReportTables}

\* ------------------------------------------------------------ greeting
GoodMorning == [msg |-> "Dobroe utro!"]
GoodAfternoon == [msg |-> "Dobryj den'!"]
GoodEvening == [msg |-> "Dobryj vecher!"]
GoodNight == [msg |-> "Dobroj nochi!"]
InvalidHour == [msg |-> "Nedopustimyj chas."]

\* the hour of a datetime
Hour(user_datetime) == user_datetime[4]

IsMorning(hour) == 5 <= hour /\ hour < 12
IsAfternoon(hour) == 12 <= hour /\ hour < 18
\* an evening that lasts through the hour of 22
IsEvening_mut(hour) == 18 <= hour /\ hour <= 22
IsEvening(hour) == 18 <= hour /\ hour < 22

\* say_hello(user_datetime): reading the hour of a datetime raises nothing,
\* so the except branch and its greeting are never taken
say_hello(user_datetime) ==
    LET hour == Hour(user_datetime)
    IN  IF IsMorning(hour) THEN GoodMorning
        ELSE IF IsAfternoon(hour) THEN GoodAfternoon
        ELSE IF IsEvening(hour) THEN GoodEvening
        ELSE GoodNight

\* the first and the last instant of every hour of a day
GreetingTimes ==
    {<<2022, 1, 1, h, 0, 0, 0>> : h \in 0..23}
    \cup {<<2022, 1, 1, h, 59, 59, 999999>> : h \in 0..23}


\* ------------------------------------------------------------ external lookups
\* a tuple (status, payload) returned by a lookup
Pair(status, payload) == [ty |-> "tuple", status |-> status, payload |-> payload]

\* what requests.get gives: a response with a status code, a reason and a JSON
\* body, or a RequestException raised (kind "exception", ex its text)
Response(status_code, reason, json) ==
    [kind |-> "response", status_code |-> status_code, reason |-> reason, json |-> json]
Raised(ex) == [kind |-> "exception", ex |-> ex]

USD == <<"U", "S", "D">>
EUR == <<"E", "U", "R">>
AAPL == <<"A", "A", "P", "L">>
GOOGL == <<"G", "O", "O", "G", "L">>
NoSymbol == <<"0", "0", "0">>

\* currencies_data.get(currency, {}).get("Value")
RateOf(currencies_data, currency) ==
    IF currency \in KeySet(currencies_data) THEN Get(currencies_data, currency) ELSE None

\* get_data_via_api_currencies(currencies) when requests.get gives response:
\* round(None, 2) of a currency the body lacks raises TypeError
get_data_via_api_currencies(currencies, response) ==
    IF response.kind = "exception"
    THEN [err |-> "none", ret |-> Pair(FALSE, response.ex),
          log |-> <<LogEntry("error", response.ex)>>]
    ELSE IF response.status_code = 200
    THEN LET currencies_data == response.json
             currencies_rates ==
                 [i \in 1..Len(currencies) |-> RateOf(currencies_data, currencies[i])]
         IN  IF \E i \in 1..Len(currencies) : currencies_rates[i] = None
             THEN [err |-> "TypeError", ret |-> None, log |-> <<>>]
             ELSE [err |-> "none",
                   ret |-> Pair(TRUE, ListV([i \in 1..Len(currencies) |->
                                                RoundNum2(currencies_rates[i])])),
                   log |-> <<>>]
    ELSE [err |-> "none", ret |-> Pair(FALSE, response.reason),
          log |-> <<LogEntry("warning", response.reason)>>]

\* the prices one element of the response contributes: one for every requested
\* ticker equal to its symbol
PricesOf(i, stocks) ==
    LET matching == SelectSeq(stocks, LAMBDA stock : DictGet(i, "symbol", NoSymbol) = stock)
    IN  [k \in 1..Len(matching) |-> DictGet(i, "price", FloatV(0))]

\* [i.get("price", 0.0) for i in stocks_data for stock in stocks
\*  if i.get("symbol", "000") == stock], from element n of the response on
RECURSIVE StocksPrices(_, _, _)
StocksPrices(stocks_data, stocks, n) ==
    IF n > Len(stocks_data) THEN <<>>
    ELSE PricesOf(stocks_data[n], stocks) \o StocksPrices(stocks_data, stocks, n + 1)

\* get_data_via_api_stocks(stocks) when requests.get gives response
get_data_via_api_stocks(stocks, response) ==
    IF response.kind = "exception"
    THEN [err |-> "none", ret |-> Pair(FALSE, response.ex),
          log |-> <<LogEntry("error", response.ex)>>]
    ELSE IF response.status_code = 200
    THEN [err |-> "none",
          ret |-> Pair(TRUE, ListV(StocksPrices(response.json.items, stocks, 1))),
          log |-> <<>>]
    ELSE [err |-> "none", ret |-> Pair(FALSE, response.reason),
          log |-> <<LogEntry("warning", response.reason)>>]

\* get_exchange_rates(currencies): the function has no branch for a failed
\* lookup, so it falls off its end and returns None
get_exchange_rates(currencies, response) ==
    LET r == get_data_via_api_currencies(currencies, response)
    IN  IF r.err # "none" THEN r
        ELSE IF r.ret.status
        THEN [err |-> "none",
              ret |-> ListV([i \in 1..Len(currencies) |->
                  Dict(<<Item("currency", currencies[i]),
                         Item("rate", r.ret.payload.items[i])>>)]),
              log |-> r.log]
        ELSE [err |-> "none", ret |-> None, log |-> r.log]

\* prices[i] of the i-th requested ticker
PriceAt(stocks, prices, i) == prices[i]

\* get_stock_prices(stocks): prices[i] raises IndexError when the lookup
\* gave fewer prices than tickers were requested
get_stock_prices(stocks, response) ==
    LET r == get_data_via_api_stocks(stocks, response)
    IN  IF r.ret.status
        THEN LET prices == r.ret.payload.items
             IN  IF Len(prices) < Len(stocks)
                 THEN [err |-> "IndexError", ret |-> None, log |-> r.log]
                 ELSE [err |-> "none",
                       ret |-> ListV([i \in 1..Len(stocks) |->
                           Dict(<<Item("stock", stocks[i]),
                                  Item("price", PriceAt(stocks, prices, i))>>)]),
                       log |-> r.log]
        ELSE [err |-> "none", ret |-> ListV(<<>>), log |-> r.log]

\* bodies of the rates endpoint: both currencies, one only
RatesBodies ==
    { Dict(<<Item(USD, FloatV(87992)), Item(EUR, FloatV(95184))>>),
      Dict(<<Item(EUR, FloatV(95184))>>) }

\* elements of the quotes endpoint: two quotes of one ticker, a quote of another
\* one, an element without a price, an element without a symbol
QuoteCatalogue ==
    { ("symbol" :> AAPL) @@ ("price" :> FloatV(216240)),
      ("symbol" :> AAPL) @@ ("price" :> FloatV(1000)),
      ("symbol" :> GOOGL) @@ ("price" :> FloatV(163670)),
      ("symbol" :> GOOGL),
      ("price" :> FloatV(5000)) }
QuotesBodies == {ListV(q) : q \in SeqsUpTo(QuoteCatalogue, MaxQuotes)}

\* ways a request fails: refused, not authorised, no connection
FailedResponses ==
    { Response(403, "Forbidden", None), Response(401, "Unauthorized", None),
      Raised("Something went wrong") }
RatesResponses == {Response(200, "OK", b) : b \in RatesBodies} \cup FailedResponses
QuotesResponses == {Response(200, "OK", b) : b \in QuotesBodies} \cup FailedResponses

CurrencyLists == SeqsUpTo({USD, EUR}, MaxTickers)
TickerLists == SeqsUpTo({AAPL, GOOGL}, MaxTickers)


\* ------------------------------------------------------------ user settings
Lowercase ==
    <<"a", "b", "c", "d", "e", "f", "g", "h", "i", "j", "k", "l", "m",
      "n", "o", "p", "q", "r", "s", "t", "u", "v", "w", "x", "y", "z">>
Uppercase ==
    <<"A", "B", "C", "D", "E", "F", "G", "H", "I", "J", "K", "L", "M",
      "N", "O", "P", "Q", "R", "S", "T", "U", "V", "W", "X", "Y", "Z">>

\* s.upper()
UpperText(s) ==
    [i \in 1..Len(s) |->
        IF \E n \in 1..26 : Lowercase[n] = s[i]
        THEN Uppercase[CHOOSE n \in 1..26 : Lowercase[n] = s[i]]
        ELSE s[i]]

\* s.replace(",", " ")
CommasToSpaces(s) == [i \in 1..Len(s) |-> IF s[i] = "," THEN " " ELSE s[i]]

\* s.replace("  ", " "): non-overlapping pairs of blanks, left to right
RECURSIVE HalveBlanks(_)
HalveBlanks(s) ==
    IF Len(s) < 2 THEN s
    ELSE IF s[1] = " " /\ s[2] = " " THEN <<" ">> \o HalveBlanks(SubSeq(s, 3, Len(s)))
    ELSE <<s[1]>> \o HalveBlanks(Tail(s))

\* s.split(), from position i on, word being the token read so far
RECURSIVE SplitFrom(_, _, _)
SplitFrom(s, i, word) ==
    IF i > Len(s) THEN (IF word = <<>> THEN <<>> ELSE <<word>>)
    ELSE IF s[i] = " "
    THEN (IF word = <<>> THEN <<>> ELSE <<word>>) \o SplitFrom(s, i + 1, <<>>)
    ELSE SplitFrom(s, i + 1, Append(word, s[i]))
Split(s) == SplitFrom(s, 1, <<>>)

\* user_currencies.upper().replace(",", " ").replace("  ", " ").split()
Tokens(entry) == Split(HalveBlanks(CommasToSpaces(UpperText(entry))))

\* a check that lets every token through
AnyNotIn_mut(tokens, reference) == FALSE

\* any(token not in reference for token in tokens)
AnyNotIn(tokens, reference) ==
    \E i \in 1..Len(tokens) : \A n \in 1..Len(reference) : reference[n] # tokens[i]

CheckInputMsg == [msg |-> "Prover'te pravil'nost' vvedennyh dannyh."]
SettingsFile == FileName("user_settings", ".json")
UserSettings(user_currencies, user_stocks) ==
    Dict(<<Item("user_currencies", ListV(user_currencies)),
           Item("user_stocks", ListV(user_stocks))>>)

\* get_data_from_user(user_currencies, user_stocks) with the reference lists
\* codes and symbols read from data/ and the directory dir: the value
\* returned, the directory afterwards and what is logged
get_data_from_user(user_currencies, user_stocks, codes, symbols, dir) ==
    LET currencies == Tokens(user_currencies)
        stocks == Tokens(user_stocks)
        noLists == IF codes = <<>> \/ symbols = <<>>
                   THEN <<LogEntry("warning", "reference list empty")>> ELSE <<>>
    IN  IF AnyNotIn(currencies, codes) \/ AnyNotIn(stocks, symbols)
        THEN [ret |-> CheckInputMsg, files |-> dir,
              log |-> noLists \o <<LogEntry("warning", "invalid")>>]
        ELSE [ret |-> None,
              files |-> WriteFile(dir, SettingsFile,
                            [format |-> "json", data |-> UserSettings(currencies, stocks)]),
              log |-> noLists]

\* what get_currencies and get_stocks return: the codes of the reference
\* file, or [] when the file is missing or cannot be decoded
CodeLists == {<<USD, EUR>>, <<>>}
SymbolLists == {<<AAPL, GOOGL>>, <<>>}

\* what a user types for the currencies and for the stocks
CurrencyEntries ==
    { <<"u", "s", "d", ",", "E", "U", "R">>,
      <<"e", "u", "r", ",", " ", " ", "U", "s", "d", " ">>,
      <<"U", "S", "D">>,
      <<"b", "y", "r">>,
      <<"U", "S", "D", ",", "b", "y", "r">>,
      <<>> }
StockEntries ==
    { <<"g", "o", "o", "g", "l", " ", "a", "a", "p", "l">>,
      <<"A", "A", "P", "L">>,
      <<"t", "m", "o", "s">>,
      <<>> }

\* a settings file written by an earlier session, and one that is not JSON
OldSettings ==
    [name |-> SettingsFile,
     content |-> [format |-> "json", data |-> UserSettings(<<EUR>>, <<GOOGL>>)]]
Undecodable == [ty |-> "undecodable"]
CorruptSettings ==
    [name |-> SettingsFile, content |-> [format |-> "json", data |-> Undecodable]]


\* ------------------------------------------------------------ dashboard
\* the local user_settings before any assignment to it
Unbound == [ty |-> "unbound"]
EnterSettingsMsg == [msg |-> "enter the currency codes and the S&P 500 tickers"]

\* the content of user_settings.json in the directory, None if there is none
SettingsOf(dir) ==
    IF \E f \in dir : f.name = SettingsFile
    THEN (CHOOSE f \in dir : f.name = SettingsFile).content.data
    ELSE None

\* the outcome of a dashboard that stops with an exception
Failed(e, t, filtered, dict, cardList, sorted, top, msgs) ==
    [err |-> e, df |-> t, df_filtered |-> filtered, operations_dict |-> dict,
     cards |-> cardList, sorted_rows |-> sorted, top_transactions |-> top,
     ret |-> None, log |-> msgs]

\* lines 34-45 of generate_json_response: the outcomes of assembling the
\* dashboard from the table and the local user_settings, the two endpoints
\* answering rates_response and quotes_response; reading an unbound local
\* raises UnboundLocalError
Assemble(report_datetime, t, user_settings, rates_response, quotes_response) ==
    LET f == filter_by_date(report_datetime, t)
        c == calculate_cashback(get_total_expenses(f.ret))
        p == process_cards_info(c.dict)
    IN  IF f.err # "none"
        THEN {Failed(f.err, f.df, None, None, None, None, None, <<>>)}
        ELSE IF c.err # "none"
        THEN {Failed(c.err, f.df, f.ret, c.dict, None, None, None, <<>>)}
        ELSE IF p.err # "none"
        THEN {Failed(p.err, f.df, f.ret, c.dict, None, None, None, <<>>)}
        ELSE
          { LET top == get_top_transactions(sorted.items, 5)
                x == get_exchange_rates(Get(user_settings, "user_currencies").items,
                                        rates_response)
                s == get_stock_prices(Get(user_settings, "user_stocks").items,
                                      quotes_response)
            IN  IF user_settings = Unbound
                THEN Failed("UnboundLocalError", f.df, f.ret, c.dict, p.ret, sorted, top, <<>>)
                ELSE IF x.err # "none"
                THEN Failed(x.err, f.df, f.ret, c.dict, p.ret, sorted, top, x.log)
                ELSE IF s.err # "none"
                THEN Failed(s.err, f.df, f.ret, c.dict, p.ret, sorted, top, x.log \o s.log)
                ELSE [err |-> "none", df |-> f.df, df_filtered |-> f.ret,
                      operations_dict |-> c.dict, cards |-> p.ret,
                      sorted_rows |-> sorted, top_transactions |-> top,
                      ret |-> JsonText(Dict(<<
                          Item("greeting", say_hello(report_datetime)),
                          Item("cards", p.ret),
                          Item("top_transactions", top),
                          Item("currency_rates", x.ret),
                          Item("stock_prices", s.ret)>>)),
                      log |-> x.log \o s.log]
            : sorted \in sort_by_amount(f.ret) }

\* tables a dashboard is asked of
DashboardTables == {Table(BaseCols, rows) : rows \in SeqsUpTo(RowCatalogue, 1)}

\* answers of the two endpoints while a dashboard is assembled
DashboardRates ==
    { Response(200, "OK", Dict(<<Item(USD, FloatV(87992)), Item(EUR, FloatV(95184))>>)),
      Response(403, "Forbidden", None) }
DashboardQuotes ==
    { Response(200, "OK", ListV(<<("symbol" :> AAPL) @@ ("price" :> FloatV(216240)),
                                  ("symbol" :> GOOGL) @@ ("price" :> FloatV(163670))>>)),
      Raised("Something went wrong") }


\* ------------------------------------------------------------ transactions list
\* datetime.strftime(dt, "%Y-%m-%d")
StrftimeYmd(dt) == TextV(Pad4(dt[1]) \o <<"-">> \o Pad2(dt[2]) \o <<"-">> \o Pad2(dt[3]))

\* datetime.strptime(x, "%d.%m.%Y %H:%M:%S") of a cell: a cell that is not a
\* text raises TypeError, a text in another layout ValueError
StrptimeCell(x) ==
    IF x.ty # "str" THEN [ok |-> FALSE, err |-> "TypeError", dt |-> <<>>]
    ELSE LET p == Strptime(x.s)
         IN  [ok |-> p.ok, err |-> IF p.ok THEN "none" ELSE "ValueError", dt |-> p.dt]

\* a conversion that leaves out the rows whose timestamp cannot be read
get_transactions_list_mut(t) ==
    LET transactions ==
            SelectSeq(t.rows,
                      LAMBDA r : StrptimeCell(DictGet(r, ColOpDate, DefaultDate)).ok)
    IN  [ret |-> [i \in 1..Len(transactions) |->
                    Transaction(StrftimeYmd(StrptimeCell(transactions[i][ColOpDate]).dt),
                                DictGet(transactions[i], ColOpSum, FloatV(0)))],
         log |-> <<>>]

\* get_transactions_list(df): the list returned and what is logged; the first
\* row whose timestamp cannot be read ends the comprehension with an exception,
\* which is caught and logged
get_transactions_list(t) ==
    LET transactions == t.rows
        parsed == [i \in 1..Len(transactions) |->
                      StrptimeCell(DictGet(transactions[i], ColOpDate, DefaultDate))]
        failing == {i \in 1..Len(transactions) : ~parsed[i].ok}
        first == CHOOSE i \in failing : \A j \in failing : i <= j
    IN  IF failing # {}
        THEN [ret |-> <<>>, log |-> <<LogEntry("error", parsed[first].err)>>]
        ELSE [ret |-> [i \in 1..Len(transactions) |->
                          Transaction(StrftimeYmd(parsed[i].dt),
                                      DictGet(transactions[i], ColOpSum, FloatV(0)))],
              log |-> <<>>]

\* the table read_excel2dataframe returns when the spreadsheet is not found:
\* one row, every cell missing
FallbackTable == Table(BaseCols, <<Row(NaN, NaN, NaN, NaN, NaN)>>)

\* tables without the timestamp column and without the amount column
NoStampTable == Table(<<ColOpSum>>, <<(ColOpSum :> FloatV(-5000))>>)
NoAmountTable == Table(<<ColOpDate>>, <<(ColOpDate :> Ts(1, 12, 2021, 12, 0, 0))>>)
TransactionTables == TopTables \cup {FallbackTable, NoStampTable, NoAmountTable}


\* ------------------------------------------------------------ date prompt
\* an input taken as typed
Strip_mut(s) == s

\* s.strip() of a text of blanks and other characters
RECURSIVE Strip(_)
Strip(s) ==
    IF s = <<>> THEN s
    ELSE IF Head(s) = " " THEN Strip(Tail(s))
    ELSE IF s[Len(s)] = " " THEN Strip(SubSeq(s, 1, Len(s) - 1))
    ELSE s

\* %d of strptime: 1..31 written with one or two digits, or a blank and a digit
DayField(s) ==
    IF Len(s) = 1 /\ IsDigits(s) /\ ToInt(s) >= 1 THEN ToInt(s)
    ELSE IF Len(s) = 2 /\ IsDigits(s) /\ ToInt(s) \in 1..31 THEN ToInt(s)
    ELSE IF Len(s) = 2 /\ s[1] = " " /\ IsDigits(Tail(s)) /\ ToInt(Tail(s)) >= 1
    THEN ToInt(Tail(s))
    ELSE 0

\* %m of strptime: 1..12 written with one or two digits
MonthField(s) ==
    IF Len(s) \in {1, 2} /\ IsDigits(s) /\ ToInt(s) \in 1..12 THEN ToInt(s) ELSE 0

\* %y of strptime: two digits, 69..99 of the last century, 00..68 of this one
YearField(s) ==
    IF Len(s) = 2 /\ IsDigits(s)
    THEN (IF ToInt(s) >= 69 THEN 1900 + ToInt(s) ELSE 2000 + ToInt(s))
    ELSE 0

\* datetime.strptime(s, "%d.%m.%y"); a text it does not take is a ValueError
StrptimeDmy(s) ==
    LET dots == {i \in 1..Len(s) : s[i] = "."}
        p == CHOOSE i \in dots : \A j \in dots : i <= j
        q == CHOOSE i \in dots : \A j \in dots : j <= i
        d == DayField(SubSeq(s, 1, p - 1))
        m == MonthField(SubSeq(s, p + 1, q - 1))
        y == YearField(SubSeq(s, q + 1, Len(s)))
    IN  IF Cardinality(dots) = 2 /\ d > 0 /\ m > 0 /\ y > 0 /\ d <= DaysIn(y, m)
        THEN [ok |-> TRUE, dt |-> <<y, m, d, 0, 0, 0, 0>>]
        ELSE [ok |-> FALSE, dt |-> <<>>]

BadDateMsg == [msg |-> "the input is not a date DD.MM.YY"]

\* what the user types at the prompt: nothing, blanks, dates with and without
\* leading zeros, a day after a blank, a year of the last century, a leap day,
\* a four-digit year, a day the month lacks, a padded date, the last year of
\* this century's range, other layouts
UserInputs ==
    { <<>>,
      <<" ">>,
      <<"1", "5", ".", "0", "9", ".", "2", "3">>,
      <<"1", ".", "5", ".", "2", "3">>,
      <<" ", "1", ".", "0", "5", ".", "2", "3">>,
      <<"1", "5", ".", "0", "9", ".", "9", "9">>,
      <<"2", "9", ".", "0", "2", ".", "2", "4">>,
      <<"1", "5", ".", "0", "9", ".", "2", "0", "2", "3">>,
      <<"3", "1", ".", "0", "2", ".", "2", "3">>,
      <<" ", "1", "5", ".", "0", "9", ".", "2", "3">>,
      <<"2", "0", "2", "3", "-", "0", "9", "-", "1", "5">>,
      <<"3", "1", ".", "1", "2", ".", "6", "8">>,
      <<"1", "5", "/", "0", "9", "/", "2", "3">>,
      <<" ", " ">>,
      <<"A">> }

\* what datetime.today() gives when a prompt is shown
Clock ==
    { <<2023, 9, 15, 10, 30, 0, 0>>, EndOfDay(2023, 9, 15), <<2023, 9, 16, 0, 0, 0, 1>> }

\* get_user_date() accepts the input: it is blank or strptime takes it
Accepted(user_input) == Strip(user_input) = <<>> \/ StrptimeDmy(user_input).ok


\* ------------------------------------------------------------ state
VARIABLES df, df_filtered, operations_dict, cards, err, call, passes, totals_src,
          ret, stdout, log, sorted_rows, top_transactions, files

vars == <<df, df_filtered, operations_dict, cards, err, call, passes, totals_src,
          ret, stdout, log, sorted_rows, top_transactions, files>>
utilsVars == <<df, df_filtered, operations_dict, cards, passes, totals_src>>
servicesVars == <<ret, stdout, log>>
topVars == <<sorted_rows, top_transactions>>

\* the session right after the table has been loaded
Init ==
    /\ df \in Tables
    /\ df_filtered = None
    /\ operations_dict = None
    /\ cards = None
    /\ err = "none"
    /\ call = [op |-> "init"]
    /\ passes = 0
    /\ totals_src = None
    /\ ret = None
    /\ stdout = <<>>
    /\ log = <<>>
    /\ sorted_rows = None
    /\ top_transactions = None
    /\ files = NoFiles

\* an uncaught exception ends the session
Running == err = "none"

\* df_filtered = filter_by_date(filter_to_dt, df); as in generate_json_response
\* the call opens a new request, whose other locals are not yet bound; it
\* prints nothing and logs no warning or error
FilterByDate ==
    \E u \in UpperBounds :
        LET r == filter_by_date(u, df)
        IN  /\ Running
            /\ call' = [op |-> "filter_by_date", filter_to_dt |-> u]
            /\ err' = r.err
            /\ df' = r.df
            /\ df_filtered' = r.ret
            /\ operations_dict' = None
            /\ cards' = None
            /\ passes' = 0
            /\ totals_src' = None
            /\ sorted_rows' = None
            /\ top_transactions' = None
            /\ ret' = None
            /\ stdout' = <<>>
            /\ log' = <<>>
            /\ UNCHANGED files

\* operations_dict = get_total_expenses(t), for the table or its filtered part
GetTotalExpenses ==
    \E t \in {df, df_filtered} :
        /\ Running
        /\ t # None
        /\ call' = [op |-> "get_total_expenses"]
        /\ operations_dict' = get_total_expenses(t)
        /\ totals_src' = t
        /\ passes' = 0
        /\ cards' = None
        /\ UNCHANGED <<df, df_filtered, err, servicesVars, topVars, files>>

\* calculate_cashback(operations_dict), mutating the dict in place
CalculateCashback ==
    /\ Running
    /\ operations_dict # None
    /\ passes < MaxPasses
    /\ LET r == calculate_cashback(operations_dict)
       IN  /\ operations_dict' = r.dict
           /\ err' = r.err
    /\ passes' = passes + 1
    /\ call' = [op |-> "calculate_cashback"]
    /\ UNCHANGED <<df, df_filtered, cards, totals_src, servicesVars, topVars, files>>

\* cards = process_cards_info(operations_dict)
ProcessCardsInfo ==
    /\ Running
    /\ operations_dict # None
    /\ LET r == process_cards_info(operations_dict)
       IN  /\ cards' = r.ret
           /\ err' = r.err
    /\ call' = [op |-> "process_cards_info"]
    /\ UNCHANGED <<df, df_filtered, operations_dict, passes, totals_src, servicesVars,
                   topVars, files>>

Next ==
    \/ FilterByDate
    \/ GetTotalExpenses
    \/ CalculateCashback
    \/ ProcessCardsInfo

Spec == Init /\ [][Next]_vars

\* ---------------------------------------------------------- services.py
\* the calls a client of services.py can make
ServiceCalls ==
    {[op |-> "round_to_limit", state |-> "pending", amount |-> amount,
      rounding_limit |-> rounding_limit] : amount \in Amounts, rounding_limit \in Limits}
    \cup
    {[op |-> "investment_bank", state |-> "pending", report_dt |-> report_dt,
      transactions |-> trans, limit |-> limit] :
        report_dt \in ReportDates, trans \in TransLists, limit \in Limits}
    \cup
    {[op |-> "filter_by_year_month", state |-> "pending", year_month |-> ym,
      transactions_list |-> trans] : ym \in YearMonths, trans \in TransLists}
    \cup
    {[op |-> "get_transactions_list", state |-> "pending", df |-> t] :
        t \in TransactionTables}
    \cup
    {[op |-> "round_up_summary", state |-> "pending", df |-> t,
      work_dt |-> EndOfDay(2021, 12, 15), limit |-> limit] :
        t \in TransactionTables, limit \in ValidLimits}

\* a call of a function of services.py about to be made; these functions
\* take no table
InitServices ==
    /\ df = Table(BaseCols, <<>>)
    /\ df_filtered = None
    /\ operations_dict = None
    /\ cards = None
    /\ err = "none"
    /\ call \in ServiceCalls
    /\ passes = 0
    /\ totals_src = None
    /\ ret = None
    /\ stdout = <<>>
    /\ log = <<>>
    /\ sorted_rows = None
    /\ top_transactions = None
    /\ files = NoFiles

Pending(op) == call.op = op /\ call.state = "pending"
Returned(op) == call.op = op /\ call.state = "returned"

\* ret = round_to_limit(amount, rounding_limit)
RoundToLimit ==
    /\ Pending("round_to_limit")
    /\ LET r == round_to_limit(call.amount, call.rounding_limit)
       IN  /\ ret' = r.ret
           /\ stdout' = r.out
           /\ log' = r.log
    /\ call' = [call EXCEPT !.state = "returned"]
    /\ UNCHANGED <<utilsVars, err, topVars, files>>

\* ret = investment_bank(report_dt, transactions, limit)
InvestmentBank ==
    /\ Pending("investment_bank")
    /\ LET r == investment_bank(call.report_dt, call.transactions, call.limit)
       IN  /\ ret' = r.ret
           /\ stdout' = r.out
           /\ log' = r.log
    /\ call' = [call EXCEPT !.state = "returned"]
    /\ UNCHANGED <<utilsVars, err, topVars, files>>

\* ret = filter_by_year_month(year_month, transactions_list)
FilterByYearMonth ==
    /\ Pending("filter_by_year_month")
    /\ LET r == filter_by_year_month(call.year_month, call.transactions_list)
       IN  /\ ret' = ListV(r.ret)
           /\ stdout' = r.out
           /\ log' = r.log
    /\ call' = [call EXCEPT !.state = "returned"]
    /\ UNCHANGED <<utilsVars, err, topVars, files>>

\* transactions_list = get_transactions_list(df)
CallGetTransactionsList ==
    /\ Pending("get_transactions_list")
    /\ LET r == get_transactions_list(call.df)
       IN  /\ ret' = ListV(r.ret)
           /\ log' = r.log
    /\ call' = [call EXCEPT !.state = "returned"]
    /\ UNCHANGED <<utilsVars, err, stdout, topVars, files>>

\* investment_bank(work_dt, get_transactions_list(df), limit), the round-up
\* summary of main()
RoundUpSummary ==
    /\ Pending("round_up_summary")
    /\ LET l == get_transactions_list(call.df)
           r == investment_bank(call.work_dt, l.ret, call.limit)
       IN  /\ ret' = r.ret
           /\ stdout' = r.out
           /\ log' = l.log \o r.log
    /\ call' = [call EXCEPT !.state = "returned"]
    /\ UNCHANGED <<utilsVars, err, topVars, files>>


NextServices ==
    \/ RoundToLimit
    \/ InvestmentBank
    \/ FilterByYearMonth
    \/ CallGetTransactionsList
    \/ RoundUpSummary

SpecServices == InitServices /\ [][NextServices]_vars

\* ------------------------------------------------------------ top of the month
\* the session right after a table is loaded that may hold amounts of equal
\* magnitude and timestamps in another layout
InitTop ==
    /\ df \in TopTables
    /\ df_filtered = None
    /\ operations_dict = None
    /\ cards = None
    /\ err = "none"
    /\ call = [op |-> "init"]
    /\ passes = 0
    /\ totals_src = None
    /\ ret = None
    /\ stdout = <<>>
    /\ log = <<>>
    /\ sorted_rows = None
    /\ top_transactions = None
    /\ files = NoFiles

\* sorted_rows = sort_by_amount(t), t the loaded or the filtered table
SortByAmount ==
    \E src \in {"df", "df_filtered"} :
        LET t == IF src = "df" THEN df ELSE df_filtered
        IN  /\ Running
            /\ t # None
            /\ sorted_rows' \in sort_by_amount(t)
            /\ top_transactions' = None
            /\ call' = [op |-> "sort_by_amount", src |-> src]
            /\ UNCHANGED <<utilsVars, err, servicesVars, files>>

NextTop ==
    \/ FilterByDate
    \/ SortByAmount

SpecTop == InitTop /\ [][NextTop]_vars

\* ------------------------------------------------------------ reports
ReportCalls ==
    {[op |-> "spending_by_category", state |-> "pending", category |-> category,
      report_max_dt |-> report_max_dt, file_name |-> file_name] :
        category \in ReportCategories,
        report_max_dt \in {DateTimeV(u) : u \in ReportUpperBounds} \cup {None},
        file_name \in ReportNames}

\* a report about to be asked of a table, the directory empty or holding an
\* earlier report
InitReports ==
    /\ df \in ReportTables
    /\ df_filtered = None
    /\ operations_dict = None
    /\ cards = None
    /\ err = "none"
    /\ call \in ReportCalls
    /\ passes = 0
    /\ totals_src = None
    /\ ret = None
    /\ stdout = <<>>
    /\ log = <<>>
    /\ sorted_rows = None
    /\ top_transactions = None
    /\ files \in {NoFiles, {OldReport}}

\* write_to_file(file_name, "w")(spending_by_category)(df, category,
\* report_max_dt); ret is the wrapper's local result
SpendingReport ==
    /\ Pending("spending_by_category")
    /\ LET r == spending_by_category(df, call.category, call.report_max_dt)
       IN  /\ err' = r.err
           /\ df' = r.df
           /\ ret' = r.ret
           /\ IF r.err # "none"
              THEN /\ stdout' = r.out
                   /\ log' = r.log
                   /\ UNCHANGED files
              ELSE \E writable \in BOOLEAN :
                      LET w == write_to_file(call.file_name, r.ret, files, writable)
                      IN  /\ stdout' = r.out \o w.out
                          /\ log' = r.log \o w.log
                          /\ files' = w.files
    /\ call' = [call EXCEPT !.state = "returned"]
    /\ UNCHANGED <<df_filtered, operations_dict, cards, passes, totals_src, topVars>>

NextReports ==
    \/ SpendingReport

SpecReports == InitReports /\ [][NextReports]_vars

\* ------------------------------------------------------------ utils calls
UtilsCalls ==
    {[op |-> "process_cards_info", state |-> "pending", transactions_dict |-> d] :
        d \in CashbackMaps}
    \cup
    {[op |-> "get_top_transactions", state |-> "pending", transactions_list |-> l,
      top |-> top] : l \in RecordLists, top \in TopCounts}
    \cup
    {[op |-> "top_transactions", state |-> "pending", df |-> t, top |-> top] :
        t \in TopTables, top \in TopCounts}
    \cup
    {[op |-> "say_hello", state |-> "pending", user_datetime |-> dt] :
        dt \in GreetingTimes}

\* a call of a function of utils.py that takes no table, about to be made
InitUtils ==
    /\ df = Table(BaseCols, <<>>)
    /\ df_filtered = None
    /\ operations_dict = None
    /\ cards = None
    /\ err = "none"
    /\ call \in UtilsCalls
    /\ passes = 0
    /\ totals_src = None
    /\ ret = None
    /\ stdout = <<>>
    /\ log = <<>>
    /\ sorted_rows = None
    /\ top_transactions = None
    /\ files = NoFiles

\* cards = process_cards_info(transactions_dict)
CallProcessCardsInfo ==
    /\ Pending("process_cards_info")
    /\ LET r == process_cards_info(call.transactions_dict)
       IN  /\ err' = r.err
           /\ cards' = r.ret
    /\ call' = [call EXCEPT !.state = "returned"]
    /\ UNCHANGED <<df, df_filtered, operations_dict, passes, totals_src, servicesVars,
                   topVars, files>>

\* top_transactions = get_top_transactions(transactions_list, top)
CallGetTopTransactions ==
    /\ Pending("get_top_transactions")
    /\ top_transactions' = get_top_transactions(call.transactions_list, call.top)
    /\ call' = [call EXCEPT !.state = "returned"]
    /\ UNCHANGED <<utilsVars, err, servicesVars, sorted_rows, files>>

\* get_top_transactions(sort_by_amount(df), top), as generate_json_response
\* nests the two calls
CallTopTransactions ==
    /\ Pending("top_transactions")
    /\ \E l \in sort_by_amount(call.df) :
        /\ sorted_rows' = l
        /\ top_transactions' = get_top_transactions(l.items, call.top)
    /\ call' = [call EXCEPT !.state = "returned"]
    /\ UNCHANGED <<utilsVars, err, servicesVars, files>>

\* ret = say_hello(user_datetime)
CallSayHello ==
    /\ Pending("say_hello")
    /\ ret' = say_hello(call.user_datetime)
    /\ call' = [call EXCEPT !.state = "returned"]
    /\ UNCHANGED <<utilsVars, err, stdout, log, topVars, files>>


NextUtils ==
    \/ CallProcessCardsInfo
    \/ CallGetTopTransactions
    \/ CallTopTransactions
    \/ CallSayHello

SpecUtils == InitUtils /\ [][NextUtils]_vars

\* ------------------------------------------------------------ lookup calls
ApiCalls ==
    {[op |-> op, state |-> "pending", codes |-> c, response |-> r] :
        op \in {"get_data_via_api_currencies", "get_exchange_rates"},
        c \in CurrencyLists, r \in RatesResponses}
    \cup
    {[op |-> op, state |-> "pending", codes |-> c, response |-> r] :
        op \in {"get_data_via_api_stocks", "get_stock_prices"},
        c \in TickerLists, r \in QuotesResponses}

\* a lookup about to be made, and what the endpoint will answer
InitApi ==
    /\ df = Table(BaseCols, <<>>)
    /\ df_filtered = None
    /\ operations_dict = None
    /\ cards = None
    /\ err = "none"
    /\ call \in ApiCalls
    /\ passes = 0
    /\ totals_src = None
    /\ ret = None
    /\ stdout = <<>>
    /\ log = <<>>
    /\ sorted_rows = None
    /\ top_transactions = None
    /\ files = NoFiles

\* what a lookup leaves behind: its exception, its value and what it logs
Lookup(r) ==
    /\ err' = r.err
    /\ ret' = r.ret
    /\ log' = r.log
    /\ call' = [call EXCEPT !.state = "returned"]
    /\ UNCHANGED <<utilsVars, stdout, topVars, files>>

\* ret = get_data_via_api_currencies(currencies)
CallGetDataViaApiCurrencies ==
    /\ Pending("get_data_via_api_currencies")
    /\ Lookup(get_data_via_api_currencies(call.codes, call.response))

\* ret = get_data_via_api_stocks(stocks)
CallGetDataViaApiStocks ==
    /\ Pending("get_data_via_api_stocks")
    /\ Lookup(get_data_via_api_stocks(call.codes, call.response))

\* ret = get_exchange_rates(currencies)
CallGetExchangeRates ==
    /\ Pending("get_exchange_rates")
    /\ Lookup(get_exchange_rates(call.codes, call.response))

\* ret = get_stock_prices(stocks)
CallGetStockPrices ==
    /\ Pending("get_stock_prices")
    /\ Lookup(get_stock_prices(call.codes, call.response))

NextApi ==
    \/ CallGetDataViaApiCurrencies
    \/ CallGetDataViaApiStocks
    \/ CallGetExchangeRates
    \/ CallGetStockPrices

SpecApi == InitApi /\ [][NextApi]_vars


\* ------------------------------------------------------------ settings calls
SettingsCalls ==
    {[op |-> "get_data_from_user", state |-> "pending", user_currencies |-> c,
      user_stocks |-> s, codes |-> codes, symbols |-> symbols] :
        c \in CurrencyEntries, s \in StockEntries,
        codes \in CodeLists, symbols \in SymbolLists}

\* a call that stores what the user typed, in a directory with or without a
\* settings file
InitSettings ==
    /\ df = Table(BaseCols, <<>>)
    /\ df_filtered = None
    /\ operations_dict = None
    /\ cards = None
    /\ err = "none"
    /\ call \in SettingsCalls
    /\ passes = 0
    /\ totals_src = None
    /\ ret = None
    /\ stdout = <<>>
    /\ log = <<>>
    /\ sorted_rows = None
    /\ top_transactions = None
    /\ files \in {NoFiles, {OldSettings}, {CorruptSettings}}

\* ret = get_data_from_user(user_currencies, user_stocks)
CallGetDataFromUser ==
    /\ Pending("get_data_from_user")
    /\ LET r == get_data_from_user(call.user_currencies, call.user_stocks,
                                   call.codes, call.symbols, files)
       IN  /\ ret' = r.ret
           /\ files' = r.files
           /\ log' = r.log
    /\ call' = [call EXCEPT !.state = "returned"]
    /\ UNCHANGED <<utilsVars, err, stdout, topVars>>

NextSettings ==
    \/ CallGetDataFromUser

SpecSettings == InitSettings /\ [][NextSettings]_vars


\* ------------------------------------------------------------ dashboard calls
DashboardCalls ==
    {[op |-> "generate_json_response", state |-> "pending",
      report_datetime |-> EndOfDay(2021, 12, 15), codes |-> codes, symbols |-> symbols,
      rates_response |-> x, quotes_response |-> s, asked |-> 0, accepted |-> FALSE] :
        codes \in CodeLists, symbols \in SymbolLists,
        x \in DashboardRates, s \in DashboardQuotes}

\* a dashboard about to be asked for, with a readable, an undecodable or no
\* settings file in the directory
InitDashboard ==
    /\ df \in DashboardTables
    /\ df_filtered = None
    /\ operations_dict = None
    /\ cards = None
    /\ err = "none"
    /\ call \in DashboardCalls
    /\ passes = 0
    /\ totals_src = None
    /\ ret = None
    /\ stdout = <<>>
    /\ log = <<>>
    /\ sorted_rows = None
    /\ top_transactions = None
    /\ files \in {NoFiles, {OldSettings}, {CorruptSettings}}

\* the function runs from line 34 to its end and returns
Finish(user_settings, msgs) ==
    \E o \in Assemble(call.report_datetime, df, user_settings,
                      call.rates_response, call.quotes_response) :
        /\ err' = o.err
        /\ df' = o.df
        /\ df_filtered' = o.df_filtered
        /\ operations_dict' = o.operations_dict
        /\ cards' = o.cards
        /\ sorted_rows' = o.sorted_rows
        /\ top_transactions' = o.top_transactions
        /\ ret' = o.ret
        /\ log' = msgs \o o.log

\* generate_json_response(report_datetime, df) up to its first input(): the
\* file is opened (FileNotFoundError if there is none) and decoded; decoded,
\* the function runs to its end; undecodable, it prints the request and waits
DashboardOpen ==
    /\ Pending("generate_json_response")
    /\ LET user_settings == SettingsOf(files)
       IN  IF user_settings = None
           THEN /\ err' = "FileNotFoundError"
                /\ call' = [call EXCEPT !.state = "returned"]
                /\ UNCHANGED <<utilsVars, servicesVars, topVars>>
           ELSE IF user_settings = Undecodable
           THEN /\ stdout' = Append(stdout, EnterSettingsMsg)
                /\ call' = [call EXCEPT !.state = "prompting"]
                /\ UNCHANGED <<utilsVars, err, ret, log, topVars>>
           ELSE /\ Finish(user_settings, <<>>)
                /\ call' = [call EXCEPT !.state = "returned"]
                /\ UNCHANGED <<passes, totals_src, stdout>>
    /\ UNCHANGED files

\* the two entries are read and handed to get_data_from_user: rejected, the
\* message is printed and the function waits again; accepted, the function
\* runs to its end with user_settings as the except branch left it
DashboardEntry ==
    /\ call.op = "generate_json_response"
    /\ call.state = "prompting"
    /\ \E currencies \in CurrencyEntries, stocks \in StockEntries :
        LET check_input == get_data_from_user(currencies, stocks, call.codes,
                                              call.symbols, files)
        IN  /\ files' = check_input.files
            /\ IF check_input.ret # None
               THEN /\ call.asked < MaxPrompts
                    /\ stdout' = Append(stdout, check_input.ret)
                    /\ log' = log \o check_input.log
                    /\ call' = [call EXCEPT !.asked = @ + 1]
                    /\ UNCHANGED <<utilsVars, err, ret, topVars>>
               ELSE /\ Finish(Unbound, log \o check_input.log)
                    /\ call' = [call EXCEPT !.state = "returned", !.accepted = TRUE]
                    /\ UNCHANGED <<passes, totals_src, stdout>>

NextDashboard ==
    \/ DashboardOpen
    \/ DashboardEntry

SpecDashboard == InitDashboard /\ [][NextDashboard]_vars


\* ------------------------------------------------------------ session
\* a session of main(): the table as loaded, nothing computed yet
InitSession ==
    /\ df \in Tables
    /\ df_filtered = None
    /\ operations_dict = None
    /\ cards = None
    /\ err = "none"
    /\ call = [op |-> "read_excel2dataframe"]
    /\ passes = 0
    /\ totals_src = None
    /\ ret = None
    /\ stdout = <<>>
    /\ log = <<>>
    /\ sorted_rows = None
    /\ top_transactions = None
    /\ files = NoFiles

\* the report of expenditures_and_reporting() asked of the session's table:
\* write_to_file("spending_by_cat.json", "w")(spending_by_category)(df,
\* category, report_max_dt)
SessionSpending ==
    \E category \in ReportCategories, writable \in BOOLEAN :
        LET u == DateTimeV(EndOfDay(2021, 12, 15))
            r == spending_by_category(df, category, u)
            w == write_to_file(SpendingJson, r.ret, files, writable)
        IN  /\ Running
            /\ err' = r.err
            /\ df' = r.df
            /\ ret' = r.ret
            /\ IF r.err # "none"
               THEN /\ stdout' = r.out
                    /\ log' = r.log
                    /\ UNCHANGED files
               ELSE /\ stdout' = r.out \o w.out
                    /\ log' = r.log \o w.log
                    /\ files' = w.files
            /\ call' = [op |-> "spending_by_category", category |-> category,
                        report_max_dt |-> u]
            /\ UNCHANGED <<df_filtered, operations_dict, cards, passes, totals_src, topVars>>

NextSession ==
    \/ FilterByDate
    \/ SessionSpending

SpecSession == InitSession /\ [][NextSession]_vars


\* ------------------------------------------------------------ date prompt calls
\* get_user_date() has shown its prompt and waits for the input
InitUserDate ==
    /\ df = Table(BaseCols, <<>>)
    /\ df_filtered = None
    /\ operations_dict = None
    /\ cards = None
    /\ err = "none"
    /\ \E today \in Clock :
        call = [op |-> "get_user_date", state |-> "prompting", depth |-> 0,
                current_date |-> today, user_input |-> None]
    /\ passes = 0
    /\ totals_src = None
    /\ ret = None
    /\ stdout = <<>>
    /\ log = <<>>
    /\ sorted_rows = None
    /\ top_transactions = None
    /\ files = NoFiles

\* get_user_date() from the return of input() on: a blank input returns the
\* date read before the prompt, an input strptime takes returns its date, any
\* other prints the diagnostic and calls get_user_date() again, which reads
\* the clock and shows the prompt
UserDateStep(user_input) ==
    /\ call.op = "get_user_date"
    /\ call.state = "prompting"
    /\ IF Strip(user_input) = <<>>
       THEN /\ ret' = DateTimeV(call.current_date)
            /\ call' = [call EXCEPT !.state = "returned", !.user_input = TextV(user_input)]
            /\ UNCHANGED stdout
       ELSE IF StrptimeDmy(user_input).ok
       THEN /\ ret' = DateTimeV(StrptimeDmy(user_input).dt)
            /\ call' = [call EXCEPT !.state = "returned", !.user_input = TextV(user_input)]
            /\ UNCHANGED stdout
       ELSE /\ stdout' = Append(stdout, BadDateMsg)
            /\ \E today \in Clock :
                call' = [call EXCEPT !.depth = @ + 1, !.current_date = today,
                                     !.user_input = TextV(user_input)]
            /\ UNCHANGED ret
    /\ UNCHANGED <<utilsVars, err, log, topVars, files>>

\* the user types an input the function accepts
UserDateAccepted ==
    /\ call.depth <= MaxInvalid
    /\ \E user_input \in {i \in UserInputs : Accepted(i)} : UserDateStep(user_input)

\* the user types an input the function rejects
UserDateRejected ==
    /\ call.depth < MaxInvalid
    /\ \E user_input \in {i \in UserInputs : ~Accepted(i)} : UserDateStep(user_input)

NextUserDate ==
    \/ UserDateAccepted
    \/ UserDateRejected

\* the user ends up typing an input the function accepts
SpecUserDate == InitUserDate /\ [][NextUserDate]_vars /\ WF_vars(UserDateAccepted)


\* ------------------------------------------------------------ properties
RowsOf(t) == {t.rows[i] : i \in 1..Len(t.rows)}
OpTime(row) == Strptime(Str(row[ColOpDate])).dt
FirstOfMonthMidnight(u) == <<u[1], u[2], 1, 0, 0, 0, 0>>
Project(row, cols) == [c \in {cols[i] : i \in 1..Len(cols)} |-> row[c]]

\* the rows of t stamped in [day 1 of u's month at 00:00:00, u], in order
MonthToDateRows(u, t) ==
    SelectSeq(t.rows, LAMBDA r : LexLeq(FirstOfMonthMidnight(u), OpTime(r)) /\ LexLeq(OpTime(r), u))

\* C1: filter_by_date(upperBound, rows) returns exactly the rows stamped in
\* [day 1 of upperBound's month at 00:00:00, upperBound], in input order, for
\* every time of day of upperBound.
C1_WindowStartsAtMidnight ==
    (call.op = "filter_by_date" /\ err = "none") =>
        df_filtered.rows =
            [i \in 1..Len(MonthToDateRows(call.filter_to_dt, df)) |->
                Project(MonthToDateRows(call.filter_to_dt, df)[i], df_filtered.cols)]

\* the card identifier of a row that has a card number
HasCard(row) == row[ColCard].ty = "str"
IdOf(row) == SelectSeq(row[ColCard].s, LAMBDA c : c # "*")
PresentIds(t) == {IdOf(r) : r \in {x \in RowsOf(t) : HasCard(x)}}

\* the sum of the payment amounts of the rows at the given positions
RECURSIVE PaySum(_, _)
PaySum(t, I) ==
    IF I = {} THEN 0
    ELSE LET i == CHOOSE j \in I : TRUE
             x == t.rows[i][ColPaySum]
         IN  (IF x.ty = "nan" THEN 0 ELSE x.v) + PaySum(t, I \ {i})
GroupOf(t, k) == {i \in 1..Len(t.rows) : HasCard(t.rows[i]) /\ IdOf(t.rows[i]) = k}
MissingGroup(t) == {i \in 1..Len(t.rows) : ~HasCard(t.rows[i])}

\* C9: get_total_expenses returns exactly one key per distinct card
\* identifier (card number with every '*' removed), valued with the absolute
\* value of the sum of the group's payment amounts; every value is >= 0.
C9_TotalsPerCard ==
    (call.op = "get_total_expenses") =>
        LET t == totals_src
            d == operations_dict
            extra == KeySet(d) \ PresentIds(t)
        IN  /\ PresentIds(t) \subseteq KeySet(d)
            /\ Len(d.items) = Cardinality(KeySet(d))
            /\ Cardinality(extra) = (IF MissingGroup(t) = {} THEN 0 ELSE 1)
            /\ \A k \in PresentIds(t) : Get(d, k).v = AbsI(PaySum(t, GroupOf(t, k)))
            /\ \A k \in extra : Get(d, k).v = AbsI(PaySum(t, MissingGroup(t)))
            /\ \A k \in KeySet(d) : Get(d, k).ty \in {"int", "float"} /\ Get(d, k).v >= 0

\* C9 witness: two differently masked spellings of one card are summed under
\* one identifier and the raw sum is negative
C9_Witness ==
    /\ call.op = "get_total_expenses"
    /\ \E k \in PresentIds(totals_src) :
          /\ Cardinality({totals_src.rows[i][ColCard] : i \in GroupOf(totals_src, k)}) = 2
          /\ PaySum(totals_src, GroupOf(totals_src, k)) < 0
          /\ Get(operations_dict, k).v > 0

\* C7: after get_total_expenses followed by one calculate_cashback, every
\* card identifier is mapped to the pair [t, round(t/100, 2)] of its total;
\* no entry is left as a bare total.
C7_EveryTotalPaired ==
    (call.op = "calculate_cashback" /\ passes = 1) =>
        /\ err = "none"
        /\ \A i \in 1..Len(operations_dict.items) :
              LET e == operations_dict.items[i].val
                  t == Get(get_total_expenses(totals_src), operations_dict.items[i].k)
              IN  /\ e.ty = "list"
                  /\ e.items = <<t, FloatV(Round2(t.v, 100000))>>

\* C8: calculate_cashback(calculate_cashback(m)) completes without error and
\* equals calculate_cashback(m).
C8_CashbackIdempotent ==
    (call.op = "calculate_cashback" /\ passes = 2) =>
        /\ err = "none"
        /\ operations_dict = calculate_cashback(get_total_expenses(totals_src)).dict

\* C10: in get_total_expenses -> calculate_cashback -> process_cards_info the
\* rows without a card number are grouped under "NaN" and no element of the
\* cards output corresponds to that group: every output card is the
\* identifier of a row that has a card number.
C10_NoCardForMissingNumber ==
    (call.op = "process_cards_info" /\ err = "none" /\ passes = 1) =>
        /\ MissingGroup(totals_src) # {} => <<"N", "a", "N">> \in KeySet(operations_dict)
        /\ \A i \in 1..Len(cards.items) : cards.items[i].last_digits \in PresentIds(totals_src)

\* C2: for a limit in {10, 50, 100}, round_to_limit rounds r = abs(amount) mod
\* limit to 2 decimals, tests the rounded r for zero and returns limit - r,
\* or 0.0 when the rounded r is 0 (never limit).
C2_ZeroTestOnRoundedRemainder ==
    (Returned("round_to_limit") /\ call.rounding_limit \in ValidLimits) =>
        IF call.amount.ty = "nan" THEN ret.ty = "nan"
        ELSE LET r == Round2(AbsI(call.amount.v) % (call.rounding_limit * 1000), 1000)
             IN  /\ ret.ty # "nan"
                 /\ ret.v = (IF r # 0 THEN call.rounding_limit * 1000 - r ELSE 0)

\* C3 as stated: for every limit in {10, 50, 100} and every amount a,
\* round_to_limit(a, limit) + (abs(a) mod limit) is congruent to 0 modulo
\* limit, and the result is 0 when abs(a) is a multiple of limit.
C3_ExactComplement ==
    (Returned("round_to_limit") /\ call.rounding_limit \in ValidLimits
        /\ call.amount.ty # "nan") =>
        LET L == call.rounding_limit * 1000
            m == AbsI(call.amount.v) % L
        IN  /\ (ret.v + m) % L = 0
            /\ m = 0 => ret.v = 0

\* C3 as amended: the same, for every amount that is a whole number of
\* hundredths.
C3_ComplementOfWholeHundredths ==
    (Returned("round_to_limit") /\ call.rounding_limit \in ValidLimits
        /\ call.amount.ty # "nan" /\ call.amount.v % 10 = 0) =>
        LET L == call.rounding_limit * 1000
            m == AbsI(call.amount.v) % L
        IN  /\ (ret.v + m) % L = 0
            /\ m = 0 => ret.v = 0
            /\ ret.v >= 0 /\ ret.v < L

\* C3 witness: a negative amount in whole hundredths that is not a multiple
\* of the limit gets a positive complement
C3_Witness ==
    /\ Returned("round_to_limit")
    /\ call.rounding_limit \in ValidLimits
    /\ call.amount.ty = "float" /\ call.amount.v < 0 /\ call.amount.v % 10 = 0
    /\ (-call.amount.v) % (call.rounding_limit * 1000) # 0
    /\ ret.v > 0

\* C4: for every amount and every limit not in {10, 50, 100}, round_to_limit
\* emits the user-facing warning and returns 0.0; it does not raise and
\* computes no complement.
C4_InvalidLimitYieldsZero ==
    (Returned("round_to_limit") /\ call.rounding_limit \notin {10, 50, 100}) =>
        /\ ret = FloatV(0)
        /\ stdout = <<BadLimitMsg(call.rounding_limit)>>
        /\ log = <<LogEntry("warning", BadLimitMsg(call.rounding_limit))>>
        /\ err = "none"

\* C4 witness: an invalid limit with an amount that is not a multiple of it
C4_Witness ==
    /\ Returned("round_to_limit")
    /\ call.rounding_limit = 25
    /\ call.amount = FloatV(-160670)
    /\ ret = FloatV(0)
    /\ stdout # <<>>

\* the target month as 'YYYY-MM' and the rows whose date starts with it
TargetYm(report_dt) == Pad4(report_dt[1]) \o <<"-">> \o Pad2(report_dt[2])
PrefixRows(report_dt, trans) ==
    {i \in 1..Len(trans) : SubSeq(trans[i].date.s, 1, 7) = TargetYm(report_dt)}

\* the sum of round_to_limit(amount, limit) over the rows at the positions I
RECURSIVE ComplementSum(_, _, _)
ComplementSum(trans, limit, I) ==
    IF I = {} THEN FloatV(0)
    ELSE LET i == CHOOSE j \in I : TRUE
             one == round_to_limit(trans[i].amount, limit).ret
             rest == ComplementSum(trans, limit, I \ {i})
         IN  IF one.ty = "nan" \/ rest.ty = "nan" THEN NaN ELSE FloatV(one.v + rest.v)

\* C5: with a valid limit and at least one row whose date starts with the
\* target 'YYYY-MM', investment_bank returns {month, investment_amount}, the
\* amount being the sum of round_to_limit(amount, limit) over exactly the
\* prefix-matching rows, not re-rounded.
C5_SumOverMonthRows ==
    (Returned("investment_bank") /\ call.limit \in ValidLimits
        /\ PrefixRows(call.report_dt, call.transactions) # {}) =>
        /\ ret.ty = "json"
        /\ Keys(ret.obj) = <<"month", "investment_amount">>
        /\ Get(ret.obj, "month") = TextV(TargetYm(call.report_dt))
        /\ Get(ret.obj, "investment_amount") =
              ComplementSum(call.transactions, call.limit,
                            PrefixRows(call.report_dt, call.transactions))

\* C5 witness: a row of the month is summed, a row of the same month of
\* another year or of another month of the year is not
C5_Witness ==
    /\ Returned("investment_bank")
    /\ call.limit \in ValidLimits
    /\ PrefixRows(call.report_dt, call.transactions) # {}
    /\ PrefixRows(call.report_dt, call.transactions) # 1..Len(call.transactions)
    /\ Get(ret.obj, "investment_amount").ty = "float"
    /\ Get(ret.obj, "investment_amount").v > 0

\* the rows dated in the calendar month of the report date
RowsInMonth(report_dt, trans) ==
    {i \in 1..Len(trans) :
        /\ ToInt(SubSeq(trans[i].date.s, 1, 4)) = report_dt[1]
        /\ ToInt(SubSeq(trans[i].date.s, 6, 7)) = report_dt[2]}

\* C6: investment_bank returns '{}' if and only if no row falls in the target
\* month; otherwise a record with month and investment_amount, whose amount
\* is 0.0 when the limit is invalid; an empty month never gives a record.
C6_EmptyObjectIffEmptyMonth ==
    Returned("investment_bank") =>
        LET inMonth == RowsInMonth(call.report_dt, call.transactions)
        IN  /\ ret.ty = "json"
            /\ (ret.obj = Dict(<<>>)) <=> (inMonth = {})
            /\ inMonth # {} => KeySet(ret.obj) = {"month", "investment_amount"}
            /\ (inMonth # {} /\ call.limit \notin {10, 50, 100}) =>
                  Get(ret.obj, "investment_amount") = FloatV(0)

\* C6 witness: a month with rows and an invalid limit gives a record of 0.0
C6_Witness ==
    /\ Returned("investment_bank")
    /\ call.limit = 25
    /\ RowsInMonth(call.report_dt, call.transactions) # {}
    /\ KeySet(ret.obj) = {"month", "investment_amount"}
    /\ Get(ret.obj, "investment_amount") = FloatV(0)
    /\ stdout # <<>>

\* the entries expected of the items from position i on: one per key other
\* than "NaN", the total to two decimals, the cashback as it is
RECURSIVE CardEntries(_, _)
CardEntries(items, i) ==
    IF i > Len(items) THEN <<>>
    ELSE (IF items[i].k = <<"N", "a", "N">> THEN <<>>
          ELSE <<[last_digits |-> items[i].k,
                  total_spent |-> IF items[i].val.items[1].ty = "float"
                                  THEN FloatV(Round2(items[i].val.items[1].v, 1000))
                                  ELSE items[i].val.items[1],
                  cashback |-> items[i].val.items[2]]>>)
         \o CardEntries(items, i + 1)

\* C11: for every cashback map, process_cards_info returns exactly one entry
\* {last_digits, total_spent, cashback} per key other than "NaN", in key order,
\* with total_spent the total rounded to 2 decimals and the cashback copied as
\* it is; the key "NaN" has no entry.
C11_OneEntryPerCardKey ==
    Returned("process_cards_info") =>
        /\ err = "none"
        /\ cards = ListV(CardEntries(call.transactions_dict.items, 1))

\* a map with the key "NaN" and a card whose total has three decimals
C11_Witness ==
    /\ Returned("process_cards_info")
    /\ <<"N", "a", "N">> \in KeySet(call.transactions_dict)
    /\ Len(cards.items) = 1
    /\ cards.items[1].total_spent = FloatV(1212800)
    /\ cards.items[1].cashback = FloatV(12130)

\* the table sort_by_amount was last called with
SortInput == IF call.src = "df" THEN df ELSE df_filtered

\* the result lists the rows of t in the order p
ListsInOrder(result, t, p) ==
    \A i \in 1..Len(t.rows) : Project(result.items[i], t.cols) = t.rows[p[i]]

\* p puts amounts of larger magnitude first and keeps the input order of
\* rows of equal magnitude
StableDescending(t, p) ==
    \A i, j \in 1..Len(t.rows) :
        (i < j /\ t.rows[p[i]][ColOpSum].ty # "nan" /\ t.rows[p[j]][ColOpSum].ty # "nan") =>
            \/ AbsI(t.rows[p[i]][ColOpSum].v) > AbsI(t.rows[p[j]][ColOpSum].v)
            \/ /\ AbsI(t.rows[p[i]][ColOpSum].v) = AbsI(t.rows[p[j]][ColOpSum].v)
               /\ p[i] < p[j]

\* C12: for every table, sort_by_amount returns a permutation of the input
\* rows ordered by non-increasing abs(operation amount), and rows of equal
\* magnitude keep the relative order they have in the input (stable sort).
C12_StableSortByMagnitude ==
    call.op = "sort_by_amount" =>
        /\ Len(sorted_rows.items) = Len(SortInput.rows)
        /\ \E p \in Orders(Len(SortInput.rows)) :
                ListsInOrder(sorted_rows, SortInput, p) /\ StableDescending(SortInput, p)

\* the record expected of a row: its four fields, a default for each field
\* the row lacks
TopRecordOf(row) ==
    [date |-> IF ColPayDate \in DOMAIN row THEN row[ColPayDate] ELSE None,
     amount |-> IF ColPaySum \in DOMAIN row THEN row[ColPaySum] ELSE FloatV(0),
     category |-> IF ColCategory \in DOMAIN row THEN row[ColCategory] ELSE UnknownCategory,
     description |-> IF ColDescription \in DOMAIN row THEN row[ColDescription]
                     ELSE NoDescription]

MinOf(a, b) == IF a < b THEN a ELSE b

\* the rows of t with an operation amount, and those of largest magnitude
RowsWithAmount(t) == {r \in RowsOf(t) : r[ColOpSum].ty # "nan"}
LargestRows(t) ==
    {r \in RowsWithAmount(t) :
        \A o \in RowsWithAmount(t) : AbsI(r[ColOpSum].v) >= AbsI(o[ColOpSum].v)}

ThreeMonthsEarlier(u) ==
    LET y == IF u[2] > 3 THEN u[1] ELSE u[1] - 1
        m == IF u[2] > 3 THEN u[2] - 3 ELSE u[2] + 9
        d == IF u[3] <= DaysIn(y, m) THEN u[3] ELSE DaysIn(y, m)
    IN  <<y, m, d, 0, 0, 0, 0>>

Readable(row) == Strptime(Str(row[ColOpDate])).ok

\* the rows of t of the given category stamped in [u - 3 months, u], in order
ReportRows(t, category, u) ==
    SelectSeq(t.rows,
              LAMBDA r : /\ Readable(r)
                         /\ LexLeq(ThreeMonthsEarlier(u), OpTime(r))
                         /\ LexLeq(OpTime(r), u)
                         /\ r[ColCategory] = category)

\* the chronologically latest operation timestamp of t
LatestStamp(t) ==
    CHOOSE u \in {OpTime(r) : r \in RowsOf(t)} :
        \A r \in RowsOf(t) : LexLeq(OpTime(r), u)

\* the upper bound a report call is to use
UpperBoundOf(c, t) ==
    IF c.report_max_dt = None THEN LatestStamp(t) ELSE c.report_max_dt.dt

\* C14: spending_by_category uses asOf as the upper bound of its window when
\* asOf is given; when asOf is absent it completes normally, its upper bound
\* the chronologically latest operation timestamp of the rows.
C14_UpperBoundGivenOrLatest ==
    (Returned("spending_by_category") /\ df.rows # <<>>
        /\ \A r \in RowsOf(df) : Readable(r)) =>
        /\ err = "none"
        /\ (ret = EmptyArrayText) <=>
               (ReportRows(df, call.category, UpperBoundOf(call, df)) = <<>>)
        /\ ret \notin {EmptyArrayText, None} =>
               Len(ret.obj) = Len(ReportRows(df, call.category, UpperBoundOf(call, df)))

\* the operation timestamps of the records of a JSON report, in order
StampsOfReport(text) ==
    [i \in 1..Len(json_loads(text)) |->
        (CHOOSE f \in {json_loads(text)[i][j] : j \in 1..Len(json_loads(text)[i])} :
            f.k = ColOpDate).val]

\* C15: for every table, category and upper bound U, a non-empty result of
\* spending_by_category holds exactly the rows stamped in [U minus 3 calendar
\* months at 00:00:00, U], both ends included, whose category equals the
\* requested one exactly, in input order.
C15_ThreeMonthWindowAndCategory ==
    (Returned("spending_by_category") /\ ret \notin {EmptyArrayText, None}) =>
        StampsOfReport(ret) =
            [i \in 1..Len(ReportRows(df, call.category, call.report_max_dt.dt)) |->
                ReportRows(df, call.category, call.report_max_dt.dt)[i][ColOpDate]]

\* a report up to 31.05.2021 12:35:05 of a table holding the row of
\* 28.02.2021 00:00:00 and a later row: the first is reported, alone
C15_Witness ==
    /\ Returned("spending_by_category")
    /\ call.report_max_dt = DateTimeV(<<2021, 5, 31, 12, 35, 5, 0>>)
    /\ Len(df.rows) = 2
    /\ ret \notin {EmptyArrayText, None}
    /\ StampsOfReport(ret) = <<Ts(28, 2, 2021, 0, 0, 0)>>

\* C16: when no row matches the category within the window,
\* spending_by_category returns the sentinel "[]", and for that sentinel, as
\* for a null result, the write_to_file wrapper creates or overwrites no file.
C16_NoWriteForEmptyReport ==
    [][(Pending("spending_by_category") /\ call'.state = "returned") =>
          /\ (err' = "none"
                /\ ReportRows(df, call.category, call.report_max_dt.dt) = <<>>) =>
                 ret' = EmptyArrayText
          /\ ret' \in {EmptyArrayText, None} => files' = files]_vars

\* an empty report asked under the name of a report already in the directory
C16_Witness ==
    /\ Returned("spending_by_category")
    /\ ret = EmptyArrayText
    /\ call.file_name = SpendingJson
    /\ files = {OldReport}

\* C17: when a value that JSON cannot represent reaches the serialization
\* step (here the timestamps of the column filter_by_date left in the
\* table), the failure is caught and logged and the function returns None;
\* no exception reaches the caller.
C17_SerializationFailureYieldsNone ==
    (Returned("spending_by_category") /\ call.report_max_dt # None
        /\ "date" \in ColSet(df)
        /\ ReportRows(df, call.category, call.report_max_dt.dt) # <<>>) =>
        /\ err = "none"
        /\ ret = None
        /\ log = <<LogEntry("error", "TypeError")>>

\* a report with a matching row asked of a table filter_by_date has been
\* applied to
C17_Witness ==
    /\ Returned("spending_by_category")
    /\ call.report_max_dt # None
    /\ "date" \in ColSet(df)
    /\ ReportRows(df, call.category, call.report_max_dt.dt) # <<>>
    /\ ret = None
    /\ log # <<>>

\* C18: parsing a non-empty spending_by_category result back from JSON gives
\* one object per matching source row, its fields exactly the table's
\* original columns in their order, its values equal field for field to the
\* row's; the helper date column is not among the fields.
C18_ReportRoundTrip ==
    (Returned("spending_by_category") /\ ret \notin {EmptyArrayText, None}) =>
        LET parsed == json_loads(ret)
            rows == ReportRows(df, call.category, call.report_max_dt.dt)
        IN  /\ Len(parsed) = Len(rows)
            /\ \A i \in 1..Len(parsed) :
                   /\ [j \in 1..Len(parsed[i]) |-> parsed[i][j].k] = BaseCols
                   /\ \A j \in 1..Len(parsed[i]) :
                          parsed[i][j].val = rows[i][BaseCols[j]]

\* a report holding a row with a whole-number amount, asked of a table that
\* now carries the helper column
C18_Witness ==
    /\ Returned("spending_by_category")
    /\ ret \notin {EmptyArrayText, None}
    /\ ColDate \in ColSet(df)
    /\ \E i \in 1..Len(json_loads(ret)) :
           /\ json_loads(ret)[i][3].val = IntV(-64)
           /\ json_loads(ret)[i][2].val = Card4556

\* s is a month in the layout YYYY-MM
WellFormedYearMonth(s) ==
    /\ Len(s) = 7
    /\ s[5] = "-"
    /\ \A i \in {1, 2, 3, 4, 6, 7} : s[i] \in DigitChars
    /\ ToInt(SubSeq(s, 6, 7)) \in 1..12
    /\ ToInt(SubSeq(s, 1, 4)) >= 1

\* C19: for every year_month that does not match the format YYYY-MM and
\* every row list, filter_by_year_month logs, prints the diagnostic and
\* returns the empty list without raising; for a well-formed year_month it
\* returns exactly the rows whose date's first 7 characters equal year_month,
\* in input order.
C19_MalformedMonthIsReported ==
    Returned("filter_by_year_month") =>
        /\ err = "none"
        /\ IF WellFormedYearMonth(call.year_month)
           THEN ret = ListV(SelectSeq(call.transactions_list,
                               LAMBDA tr : Prefix(GetOr(tr.date, DefaultDate).s, 7)
                                           = call.year_month))
           ELSE /\ ret = ListV(<<>>)
                /\ log = <<LogEntry("error", "ValueError")>>
                /\ stdout = <<BadYearMonthMsg(call.year_month)>>

C21_PermissionErrorPropagates ==
    (Returned("spending_by_category") /\ ret \notin {EmptyArrayText, None}
        /\ ReportWrittenMsg(call.file_name) \notin {stdout[i] : i \in 1..Len(stdout)}) =>
        err = "PermissionError"

\* the hours of each band of the day
MorningHours == 5..11
AfternoonHours == 12..17
EveningHours == 18..21
NightHours == {22, 23} \cup 0..4
GreetingOf(h) ==
    IF h \in MorningHours THEN GoodMorning
    ELSE IF h \in AfternoonHours THEN GoodAfternoon
    ELSE IF h \in EveningHours THEN GoodEvening
    ELSE GoodNight

LookupFailed ==
    call.response.kind = "exception" \/ call.response.status_code # 200
FailureReason ==
    IF call.response.kind = "exception" THEN call.response.ex ELSE call.response.reason

\* C23: after a non-200 response or a transport error the two low-level
\* lookups return (False, reason) without raising, and get_exchange_rates and
\* get_stock_prices both return an empty list.
C23_FailedLookupDegradesToEmptyList ==
    (call.state = "returned" /\ LookupFailed) =>
        /\ err = "none"
        /\ call.op \in {"get_data_via_api_currencies", "get_data_via_api_stocks"} =>
               ret = Pair(FALSE, FailureReason)
        /\ call.op \in {"get_exchange_rates", "get_stock_prices"} => ret = ListV(<<>>)


\* the elements of the response of the call, and the first of them whose
\* symbol is the ticker
QuotesOf(response) == response.json.items
HasQuote(response, ticker) ==
    \E n \in 1..Len(QuotesOf(response)) :
        DictGet(QuotesOf(response)[n], "symbol", NoSymbol) = ticker
FirstQuote(response, ticker) ==
    LET quotes == QuotesOf(response)
        n == CHOOSE n \in 1..Len(quotes) :
                 /\ DictGet(quotes[n], "symbol", NoSymbol) = ticker
                 /\ \A k \in 1..(n - 1) : DictGet(quotes[k], "symbol", NoSymbol) # ticker
    IN  DictGet(quotes[n], "price", FloatV(0))

\* C24: on a successful stock lookup get_stock_prices returns one {stock, price}
\* entry per requested ticker, in requested order, the price being that of the
\* first response element with the ticker's symbol, whatever the order of the
\* response's elements and whatever duplicate symbols it holds.
C24_PricePerRequestedTicker ==
    (/\ Returned("get_stock_prices")
     /\ ~LookupFailed
     /\ \A i \in 1..Len(call.codes) : HasQuote(call.response, call.codes[i])) =>
        /\ err = "none"
        /\ ret = ListV([i \in 1..Len(call.codes) |->
               Dict(<<Item("stock", call.codes[i]),
                      Item("price", FirstQuote(call.response, call.codes[i]))>>)])


\* the tokens of an entry: its maximal runs of characters other than commas
\* and blanks, upper-cased, in entry order
IsSeparator(c) == c \in {",", " "}
TokenStarts(s) ==
    {i \in 1..Len(s) : ~IsSeparator(s[i]) /\ (i = 1 \/ IsSeparator(s[i - 1]))}
TokenEnd(s, i) ==
    CHOOSE j \in i..Len(s) :
        /\ \A k \in i..j : ~IsSeparator(s[k])
        /\ (j = Len(s) \/ IsSeparator(s[j + 1]))
UpperChar(c) ==
    IF \E n \in 1..26 : Lowercase[n] = c
    THEN Uppercase[CHOOSE n \in 1..26 : Lowercase[n] = c] ELSE c
EntryTokens(s) ==
    LET starts == TokenStarts(s)
        nth(k) == CHOOSE i \in starts : Cardinality({j \in starts : j < i}) = k - 1
    IN  [k \in 1..Cardinality(starts) |->
            [n \in 1..(TokenEnd(s, nth(k)) - nth(k) + 1) |-> UpperChar(s[nth(k) + n - 1])]]
AllListed(tokens, reference) ==
    \A i \in 1..Len(tokens) : \E n \in 1..Len(reference) : reference[n] = tokens[i]

\* C25: get_data_from_user writes the settings file only when every currency
\* token is in the currency reference list and every stock token in the ticker
\* reference list, and then the lists written are the upper-cased tokens in
\* entry order and nothing is returned; otherwise it returns the error message
\* and leaves the directory as it was.
C25_SettingsWrittenOnlyWhenValid ==
    [][Pending("get_data_from_user") =>
        LET currencies == EntryTokens(call.user_currencies)
            stocks == EntryTokens(call.user_stocks)
        IN  IF AllListed(currencies, call.codes) /\ AllListed(stocks, call.symbols)
            THEN /\ ret' = None
                 /\ {f \in files' : f.name = SettingsFile} =
                        {[name |-> SettingsFile,
                          content |-> [format |-> "json",
                                       data |-> UserSettings(currencies, stocks)]]}
            ELSE /\ ret' = CheckInputMsg
                 /\ files' = files]_vars
C25_Witness ==
    /\ Returned("get_data_from_user")
    /\ call.user_currencies = <<"e", "u", "r", ",", " ", " ", "U", "s", "d", " ">>
    /\ call.user_stocks = <<"g", "o", "o", "g", "l", " ", "a", "a", "p", "l">>
    /\ ret = None
    /\ files = {[name |-> SettingsFile,
                 content |-> [format |-> "json",
                              data |-> UserSettings(<<EUR, USD>>, <<GOOGL, AAPL>>)]]}


\* C26: with an undecodable or an absent settings file generate_json_response
\* asks for the currencies and the stocks until get_data_from_user accepts
\* them and then completes the dashboard with the accepted values: once it has
\* returned it has not failed for lack of settings.
C26_DashboardCompletesAfterPrompt ==
    Returned("generate_json_response") =>
        /\ err \notin {"FileNotFoundError", "UnboundLocalError"}
        /\ (call.accepted /\ err = "none") => ret # None


\* C27: no operation mutates the table it is given: after any call of
\* filter_by_date or spending_by_category (get_total_expenses and
\* sort_by_amount work on a copy) the caller's table has the columns and the
\* row values it had before the call.
C27_TableNeverMutated == [][df' = df]_vars

\* the column names of the records of a JSON text
KeysOfText(text) ==
    UNION {{text.obj[i][j].k : j \in 1..Len(text.obj[i])} : i \in 1..Len(text.obj)}
OriginalColumns == {BaseCols[i] : i \in 1..Len(BaseCols)}

\* C30: after any sequence of filter_by_date and spending_by_category calls on
\* one table, the rows each call returns have the table's original columns
\* only: the result of filter_by_date carries no helper column, and
\* spending_by_category neither serializes a helper column nor fails to
\* serialize because of one.
C30_OnlyOriginalColumnsReturned ==
    /\ (Running /\ call.op = "filter_by_date") =>
           {df_filtered.cols[i] : i \in 1..Len(df_filtered.cols)} = OriginalColumns
    /\ (Running /\ call.op = "spending_by_category") =>
           /\ LogEntry("error", "TypeError") \notin {log[i] : i \in 1..Len(log)}
           /\ ret # None
           /\ KeysOfText(ret) \subseteq OriginalColumns


\* every row of t has a timestamp that reads as DD.MM.YYYY HH:MM:SS
AllStampsParse(t) ==
    /\ ColOpDate \in {t.cols[i] : i \in 1..Len(t.cols)}
    /\ \A i \in 1..Len(t.rows) : Readable(t.rows[i])
AmountOf(row) == IF ColOpSum \in DOMAIN row THEN row[ColOpSum] ELSE FloatV(0)

\* C28: get_transactions_list never raises; when every row's timestamp reads
\* as DD.MM.YYYY HH:MM:SS it returns one record (date YYYY-MM-DD, amount) per
\* row in input order; when one row's timestamp is missing or unreadable it
\* logs and returns the empty list for the whole table, so that the round-up
\* summary over the loader's all-missing table is the empty object.
C28_AllOrNothingTransactions ==
    /\ Returned("get_transactions_list") =>
        /\ err = "none"
        /\ IF AllStampsParse(call.df)
           THEN ret = ListV([i \in 1..Len(call.df.rows) |->
                    LET dt == OpTime(call.df.rows[i])
                    IN  Transaction(DateText(dt[1], dt[2], dt[3]), AmountOf(call.df.rows[i]))])
           ELSE ret = ListV(<<>>) /\ Len(log) = 1 /\ log[1].level = "error"
    /\ (Returned("round_up_summary") /\ call.df = FallbackTable) =>
        err = "none" /\ ret = JsonText(Dict(<<>>))
C28_Witness ==
    /\ Returned("get_transactions_list")
    /\ Len(call.df.rows) = 2
    /\ Readable(call.df.rows[1])
    /\ ~Readable(call.df.rows[2])
    /\ ret = ListV(<<>>)


\* the input just read, and the date a text DD.MM.YY of eight characters names
LastInput == call'.user_input.s
Prompting == call.op = "get_user_date" /\ call.state = "prompting"
IsCanonicalDate(s) ==
    /\ Len(s) = 8 /\ s[3] = "." /\ s[6] = "."
    /\ IsDigits(SubSeq(s, 1, 2)) /\ IsDigits(SubSeq(s, 4, 5)) /\ IsDigits(SubSeq(s, 7, 8))
CanonicalDate(s) ==
    <<(IF ToInt(SubSeq(s, 7, 8)) >= 69 THEN 1900 ELSE 2000) + ToInt(SubSeq(s, 7, 8)),
      ToInt(SubSeq(s, 4, 5)), ToInt(SubSeq(s, 1, 2)), 0, 0, 0, 0>>
IsCalendarDate(dt) == dt[2] \in 1..12 /\ dt[3] >= 1 /\ dt[3] <= DaysIn(dt[1], dt[2])
OnlyBlanks(s) == \A i \in 1..Len(s) : s[i] = " "

\* what a step of get_user_date does with an input that names the date dt, and
\* with one that names none
ReturnsDate(dt) ==
    /\ call'.state = "returned"
    /\ ret' = DateTimeV(dt)
    /\ stdout' = stdout
AsksAgain ==
    /\ call'.state = "prompting"
    /\ stdout' = Append(stdout, BadDateMsg)
    /\ ret' = None

====
